---- MODULE Spec2Model ----
(***************************************************************************)
(* Model of the messenger relay server (src/messenger/client/app.js,       *)
(* lines 698-1098): the connection registry `clients`, the room map        *)
(* `rooms`, the message router and the call signaling relay.               *)
(*                                                                         *)
(* JavaScript values are modelled as strings; NULL stands for null.  A JS  *)
(* Map is a sequence in insertion order (clients) or a function whose      *)
(* DOMAIN is the key set (rooms); a JS Set is a duplicate-free sequence in *)
(* insertion order.  Date.now() timestamps are left out of the envelopes.  *)
(***************************************************************************)
EXTENDS Integers, Sequences, FiniteSets, TLC

\* Number of transport connections opened during one run.
MaxConns == 2

NULL == "<null>"
OPEN == 1
CLOSING == 2

\* Values a client may put in the fields of an envelope.  "" is a falsy
\* roomId.
UserIdInputs == {"alice", "bob"}
RoomIdInputs == {"r1", ""}
RelayRoomIdInputs == {"r1", "r2"}
TargetInputs == {"alice", "bob"}
TextInputs == {"hi"}
CallTypes == {"voice", "video"}
DataInputs == {"sdp"}
WebRTCTypes == {"webrtc-offer", "webrtc-answer", "webrtc-ice-candidate"}

ClientIds == 1..MaxConns

\* JS truthiness of a string-or-null value ("" and null are falsy).
Truthy(v) == v # NULL /\ v # ""

RegisterMessages == [type : {"register"}, userId : UserIdInputs]

RoomMessages ==
    [type : {"join-room"}, roomId : RoomIdInputs]
    \cup [type : {"leave-room"}]
    \cup [type : {"chat-message"}, message : TextInputs, encrypted : BOOLEAN]

RelayRoomMessages == [type : {"join-room"}, roomId : RelayRoomIdInputs]

RelayMessages ==
    [type : WebRTCTypes, targetUserId : TargetInputs, data : DataInputs]
    \cup [type : {"call-user"}, targetUserId : TargetInputs, callType : CallTypes]
    \cup [type : {"call-response"}, targetUserId : TargetInputs, accepted : BOOLEAN]
    \cup [type : {"end-call"}, targetUserId : TargetInputs]

\* what reading a property of a JSON value that has no such property gives
UNDEFINED == "<undefined>"

\* Envelopes whose type the dispatch table of handleMessage does not have.
UnknownMessages == [type : {"ping"}]

\* Frames as they arrive on the transport: text that is not JSON, the JSON
\* texts `null` and `5`, and the JSON text of an envelope.
FrameInputs ==
    [json : {"garbage", "null", "number"}]
    \cup [json : {"object"},
          value : RegisterMessages \cup [type : {"join-room"}, roomId : {"r1"}]
                      \cup UnknownMessages]

\* Number of chat messages the browser clients send during one run.
MaxChats == 2

\* What a user may type into the login form of the browser client.
UsernameInputs == {"alice", "bob", ""}
LoginRoomInputs == {"r1", ""}

\* Call signaling with one target and one call type.
CallStateMessages ==
    [type : WebRTCTypes, targetUserId : {"alice"}, data : DataInputs]
    \cup [type : {"call-user"}, targetUserId : {"alice"}, callType : {"voice"}]
    \cup [type : {"call-response"}, targetUserId : {"alice"}, accepted : {TRUE}]
    \cup [type : {"end-call"}, targetUserId : {"alice"}]

\* register messages whose userId may be the empty string
AnyUserIdInputs == {"alice", ""}
AnyRegisterMessages == [type : {"register"}, userId : AnyUserIdInputs]

\* clients, rooms: the two Maps of the server; nextId: the next connection
\* id; sent: the envelopes the last event sent; ev: the last event.
\* peers: the browser client at the other end of each connection (frames on
\* their way to the server, oldest first; chat messages sent; the screen
\* shown; chat envelopes received).  calls: history of the call-user
\* messages relayed, as pairs <<caller userId, target userId>>.
\* crypto: one use of the encryption module (the plaintext, the key, the
\* base64 text produced, the key used to decrypt and the result).
\* shell: one call of the shell executor (the command, the options, the
\* position in executeShellCommand, the answer given and the result).
\* browser: the state object of the browser client at the other end of each
\* connection (userId, users, keys, call).
VARIABLES clients, rooms, nextId, sent, ev, peers, calls, crypto, shell,
          browser

vars == <<clients, rooms, nextId, sent, ev, peers, calls, crypto, shell,
          browser>>

\* the state of the messenger
mvars == <<clients, rooms, nextId, sent, ev, peers, calls>>

\* the state of the components beside the messenger
xvars == <<crypto, shell, browser>>

\* the variables that are no state of the server
hvars == <<peers, calls, xvars>>

----------------------------------------------------------------------------
(* Map and Set helpers *)

\* clients.has(id)
HasClient(cl, id) == \E i \in 1..Len(cl) : cl[i].id = id

\* position of id in the registry (0 when absent)
ClientIdx(cl, id) ==
    IF HasClient(cl, id) THEN CHOOSE i \in 1..Len(cl) : cl[i].id = id ELSE 0

\* clients.get(id), for an id the registry holds
GetClient(cl, id) == cl[ClientIdx(cl, id)]

\* Set.prototype.add: keeps the insertion position of a present element
SetAdd(s, x) == IF \E i \in 1..Len(s) : s[i] = x THEN s ELSE Append(s, x)

\* Set.prototype.delete
SetDelete(s, x) == SelectSeq(s, LAMBDA y : y # x)

SeqToSet(s) == {s[i] : i \in 1..Len(s)}

\* Array.prototype.map over a sequence
MapSeq(s, F(_)) == [i \in 1..Len(s) |-> F(s[i])]

\* ws.send(JSON.stringify(env)) on the transport of connection `to`.  The
\* call never throws; the envelope reaches the peer only when the transport
\* is open (delivered).
Send(st, to, env) ==
    [st EXCEPT !.sent = Append(@,
        [to |-> to, env |-> env,
         delivered |-> HasClient(st.clients, to)
                       /\ GetClient(st.clients, to).readyState = OPEN])]

ErrorEnv(text) == [type |-> "error", error |-> text]

----------------------------------------------------------------------------
(* Helpers of the server *)

\* broadcastToRoom as it would be if a recipient whose transport is not open
\* ended the loop (a send that throws inside forEach).
broadcastToRoom_AbortOnFailure(st, roomId, message, excludeClientId) ==
    IF roomId \notin DOMAIN st.rooms THEN st
    ELSE LET room == st.rooms[roomId]
             Bad(k) == /\ room[k] # excludeClientId
                       /\ HasClient(st.clients, room[k])
                       /\ GetClient(st.clients, room[k]).readyState # OPEN
             reached == SelectSeq([k \in 1..Len(room) |-> k], LAMBDA k :
                            \A j \in 1..k : ~Bad(j))
             recipients == SelectSeq(MapSeq(reached, LAMBDA k : room[k]),
                 LAMBDA cId : /\ cId # excludeClientId
                              /\ HasClient(st.clients, cId))
         IN [st EXCEPT !.sent = @ \o MapSeq(recipients, LAMBDA cId :
                 [to |-> cId, env |-> message, delivered |-> TRUE])]

broadcastToRoom(st, roomId, message, excludeClientId) ==
    IF roomId \notin DOMAIN st.rooms THEN st
    ELSE LET recipients == SelectSeq(st.rooms[roomId], LAMBDA cId :
                 /\ cId # excludeClientId
                 /\ HasClient(st.clients, cId)
                 /\ GetClient(st.clients, cId).readyState = OPEN)
         IN [st EXCEPT !.sent = @ \o MapSeq(recipients, LAMBDA cId :
                 [to |-> cId, env |-> message, delivered |-> TRUE])]

\* index in the registry of the first client with this userId, 0 for null
\* findClientByUserId that keeps looking and returns the last match.
findClientByUserId_LastMatch(cl, userId) ==
    IF \E i \in 1..Len(cl) : cl[i].userId = userId
    THEN CHOOSE i \in 1..Len(cl) :
             /\ cl[i].userId = userId
             /\ \A j \in (i + 1)..Len(cl) : cl[j].userId # userId
    ELSE 0

findClientByUserId(cl, userId) ==
    IF \E i \in 1..Len(cl) : cl[i].userId = userId
    THEN CHOOSE i \in 1..Len(cl) :
             /\ cl[i].userId = userId
             /\ \A j \in 1..(i - 1) : cl[j].userId # userId
    ELSE 0

\* leaveRoom that notifies the room before it removes the leaver from it.
leaveRoom_NotifiesLeaver(st, clientId, roomId) ==
    LET has == HasClient(st.clients, clientId)
        i == ClientIdx(st.clients, clientId)
        st1 == IF roomId \in DOMAIN st.rooms /\ has
                  /\ Truthy(st.clients[i].userId)
               THEN broadcastToRoom(st, roomId,
                        [type |-> "user-left", userId |-> st.clients[i].userId], 0)
               ELSE st
        st2 == IF roomId \in DOMAIN st.rooms
               THEN [st1 EXCEPT !.rooms[roomId] = SetDelete(@, clientId)]
               ELSE st1
        st3 == IF roomId \in DOMAIN st2.rooms /\ st2.rooms[roomId] = <<>>
               THEN [st2 EXCEPT !.rooms =
                        [r \in DOMAIN st2.rooms \ {roomId} |-> st2.rooms[r]]]
               ELSE st2
    IN IF has THEN [st3 EXCEPT !.clients[i].roomId = NULL] ELSE st3

\* leaveRoom without the clean-up of empty rooms.
leaveRoom_KeepsEmptyRoom(st, clientId, roomId) ==
    LET has == HasClient(st.clients, clientId)
        i == ClientIdx(st.clients, clientId)
        st1 == IF roomId \in DOMAIN st.rooms
               THEN [st EXCEPT !.rooms[roomId] = SetDelete(@, clientId)]
               ELSE st
        st2 == IF roomId \in DOMAIN st.rooms /\ has
                  /\ Truthy(st.clients[i].userId)
               THEN broadcastToRoom(st1, roomId,
                        [type |-> "user-left", userId |-> st.clients[i].userId], 0)
               ELSE st1
    IN IF has THEN [st2 EXCEPT !.clients[i].roomId = NULL] ELSE st2

leaveRoom(st, clientId, roomId) ==
    LET has == HasClient(st.clients, clientId)
        i == ClientIdx(st.clients, clientId)
        st1 == IF roomId \in DOMAIN st.rooms
               THEN [st EXCEPT !.rooms[roomId] = SetDelete(@, clientId)]
               ELSE st
        st2 == IF roomId \in DOMAIN st.rooms /\ has
                  /\ Truthy(st.clients[i].userId)
               THEN broadcastToRoom(st1, roomId,
                        [type |-> "user-left", userId |-> st.clients[i].userId], 0)
               ELSE st1
        st3 == IF roomId \in DOMAIN st2.rooms /\ st2.rooms[roomId] = <<>>
               THEN [st2 EXCEPT !.rooms =
                        [r \in DOMAIN st2.rooms \ {roomId} |-> st2.rooms[r]]]
               ELSE st2
    IN IF has THEN [st3 EXCEPT !.clients[i].roomId = NULL] ELSE st3

----------------------------------------------------------------------------
(* Message handlers *)

\* handleRegister that refuses a userId another connection holds.
handleRegister_RejectsDuplicate(st, clientId, userId) ==
    LET i == ClientIdx(st.clients, clientId)
    IN IF \E j \in 1..Len(st.clients) :
              j # i /\ st.clients[j].userId = userId
       THEN Send(st, clientId, ErrorEnv("User id already taken"))
       ELSE Send([st EXCEPT !.clients[i].userId = userId], clientId,
                 [type |-> "registered", userId |-> userId])

handleRegister(st, clientId, userId) ==
    LET i == ClientIdx(st.clients, clientId)
    IN Send([st EXCEPT !.clients[i].userId = userId], clientId,
            [type |-> "registered", userId |-> userId])

\* handleJoinRoom without the registration check.
handleJoinRoom_NoRegisterCheck(st, clientId, roomId) ==
    LET i == ClientIdx(st.clients, clientId)
        client == st.clients[i]
        st1 == IF Truthy(client.roomId)
               THEN leaveRoom(st, clientId, client.roomId)
               ELSE st
        members == IF roomId \in DOMAIN st1.rooms
                   THEN st1.rooms[roomId] ELSE <<>>
        st2 == [st1 EXCEPT
                  !.rooms = [r \in DOMAIN st1.rooms \cup {roomId} |->
                               IF r = roomId THEN SetAdd(members, clientId)
                               ELSE st1.rooms[r]],
                  !.clients[i].roomId = roomId]
        st3 == Send(st2, clientId,
                    [type |-> "joined-room", roomId |-> roomId, users |-> <<>>])
    IN broadcastToRoom(st3, roomId,
           [type |-> "user-joined", userId |-> client.userId], clientId)

\* handleJoinRoom that lists the users of the room before the joiner is
\* added to it.
handleJoinRoom_UsersBeforeAdd(st, clientId, roomId) ==
    LET i == ClientIdx(st.clients, clientId)
        client == st.clients[i]
    IN IF ~Truthy(client.userId)
       THEN Send(st, clientId, ErrorEnv("Must register before joining room"))
       ELSE
         LET st1 == IF Truthy(client.roomId)
                    THEN leaveRoom(st, clientId, client.roomId)
                    ELSE st
             members == IF roomId \in DOMAIN st1.rooms
                        THEN st1.rooms[roomId] ELSE <<>>
             st2 == [st1 EXCEPT
                       !.rooms = [r \in DOMAIN st1.rooms \cup {roomId} |->
                                    IF r = roomId THEN SetAdd(members, clientId)
                                    ELSE st1.rooms[r]],
                       !.clients[i].roomId = roomId]
             usersInRoom ==
                 SelectSeq(
                     MapSeq(members, LAMBDA cId :
                         IF HasClient(st1.clients, cId)
                         THEN GetClient(st1.clients, cId).userId ELSE NULL),
                     Truthy)
             st3 == Send(st2, clientId,
                         [type |-> "joined-room", roomId |-> roomId,
                          users |-> usersInRoom])
         IN broadcastToRoom(st3, roomId,
                [type |-> "user-joined", userId |-> client.userId], clientId)

\* handleJoinRoom that broadcasts user-joined to the joiner too.
handleJoinRoom_NotifiesJoiner(st, clientId, roomId) ==
    LET i == ClientIdx(st.clients, clientId)
        client == st.clients[i]
    IN IF ~Truthy(client.userId)
       THEN Send(st, clientId, ErrorEnv("Must register before joining room"))
       ELSE
         LET st1 == IF Truthy(client.roomId)
                    THEN leaveRoom(st, clientId, client.roomId)
                    ELSE st
             members == IF roomId \in DOMAIN st1.rooms
                        THEN st1.rooms[roomId] ELSE <<>>
             st2 == [st1 EXCEPT
                       !.rooms = [r \in DOMAIN st1.rooms \cup {roomId} |->
                                    IF r = roomId THEN SetAdd(members, clientId)
                                    ELSE st1.rooms[r]],
                       !.clients[i].roomId = roomId]
             usersInRoom ==
                 SelectSeq(
                     MapSeq(st2.rooms[roomId], LAMBDA cId :
                         IF HasClient(st2.clients, cId)
                         THEN GetClient(st2.clients, cId).userId ELSE NULL),
                     Truthy)
             st3 == Send(st2, clientId,
                         [type |-> "joined-room", roomId |-> roomId,
                          users |-> usersInRoom])
         IN broadcastToRoom(st3, roomId,
                [type |-> "user-joined", userId |-> client.userId], 0)

handleJoinRoom(st, clientId, roomId) ==
    LET i == ClientIdx(st.clients, clientId)
        client == st.clients[i]
    IN IF ~Truthy(client.userId)
       THEN Send(st, clientId, ErrorEnv("Must register before joining room"))
       ELSE
         LET st1 == IF Truthy(client.roomId)
                    THEN leaveRoom(st, clientId, client.roomId)
                    ELSE st
             members == IF roomId \in DOMAIN st1.rooms
                        THEN st1.rooms[roomId] ELSE <<>>
             st2 == [st1 EXCEPT
                       !.rooms = [r \in DOMAIN st1.rooms \cup {roomId} |->
                                    IF r = roomId THEN SetAdd(members, clientId)
                                    ELSE st1.rooms[r]],
                       !.clients[i].roomId = roomId]
             usersInRoom ==
                 SelectSeq(
                     MapSeq(st2.rooms[roomId], LAMBDA cId :
                         IF HasClient(st2.clients, cId)
                         THEN GetClient(st2.clients, cId).userId ELSE NULL),
                     Truthy)
             st3 == Send(st2, clientId,
                         [type |-> "joined-room", roomId |-> roomId,
                          users |-> usersInRoom])
         IN broadcastToRoom(st3, roomId,
                [type |-> "user-joined", userId |-> client.userId], clientId)

\* handleLeaveRoom that answers a connection without room with an error.
handleLeaveRoom_ErrorWhenNoRoom(st, clientId) ==
    LET client == GetClient(st.clients, clientId)
    IN IF Truthy(client.roomId) THEN leaveRoom(st, clientId, client.roomId)
       ELSE Send(st, clientId, ErrorEnv("Not in a room"))

handleLeaveRoom(st, clientId) ==
    LET client == GetClient(st.clients, clientId)
    IN IF Truthy(client.roomId) THEN leaveRoom(st, clientId, client.roomId)
       ELSE st

\* handleChatMessage that leaves the sender out of the broadcast.
handleChatMessage_ExcludesSender(st, clientId, message) ==
    LET client == GetClient(st.clients, clientId)
    IN IF ~Truthy(client.roomId)
       THEN Send(st, clientId, ErrorEnv("Must be in a room to send messages"))
       ELSE broadcastToRoom(st, client.roomId,
                [type |-> "chat-message", userId |-> client.userId,
                 message |-> message.message,
                 encrypted |-> message.encrypted], clientId)

\* handleChatMessage that drops the message of a connection without room.
handleChatMessage_SilentWhenNoRoom(st, clientId, message) ==
    LET client == GetClient(st.clients, clientId)
    IN IF ~Truthy(client.roomId) THEN st
       ELSE broadcastToRoom(st, client.roomId,
                [type |-> "chat-message", userId |-> client.userId,
                 message |-> message.message,
                 encrypted |-> message.encrypted], 0)

handleChatMessage(st, clientId, message) ==
    LET client == GetClient(st.clients, clientId)
    IN IF ~Truthy(client.roomId)
       THEN Send(st, clientId, ErrorEnv("Must be in a room to send messages"))
       ELSE broadcastToRoom(st, client.roomId,
                [type |-> "chat-message", userId |-> client.userId,
                 message |-> message.message,
                 encrypted |-> message.encrypted], 0)

\* handleWebRTCSignaling that drops the message when the target is unknown,
\* as handleCallResponse does.
handleWebRTCSignaling_SilentWhenNotFound(st, clientId, message) ==
    LET client == GetClient(st.clients, clientId)
        t == findClientByUserId(st.clients, message.targetUserId)
    IN IF ~Truthy(client.roomId) THEN st
       ELSE IF t = 0 THEN st
       ELSE Send(st, st.clients[t].id,
                 [type |-> message.type, fromUserId |-> client.userId,
                  data |-> message.data])

handleWebRTCSignaling(st, clientId, message) ==
    LET client == GetClient(st.clients, clientId)
        t == findClientByUserId(st.clients, message.targetUserId)
    IN IF ~Truthy(client.roomId) THEN st
       ELSE IF t = 0
       THEN Send(st, clientId, ErrorEnv("Target user not found"))
       ELSE Send(st, st.clients[t].id,
                 [type |-> message.type, fromUserId |-> client.userId,
                  data |-> message.data])

\* handleCallUser that drops the call when the target is unknown.
handleCallUser_SilentWhenNotFound(st, clientId, message) ==
    LET client == GetClient(st.clients, clientId)
        t == findClientByUserId(st.clients, message.targetUserId)
    IN IF ~Truthy(client.userId) THEN st
       ELSE IF t = 0 THEN st
       ELSE Send(st, st.clients[t].id,
                 [type |-> "incoming-call", fromUserId |-> client.userId,
                  callType |-> message.callType])

\* handleCallUser that relays only inside the room of the caller.
handleCallUser_RoomScoped(st, clientId, message) ==
    LET client == GetClient(st.clients, clientId)
        t == findClientByUserId(st.clients, message.targetUserId)
    IN IF ~Truthy(client.userId) THEN st
       ELSE IF t = 0 \/ st.clients[t].roomId # client.roomId
       THEN Send(st, clientId, ErrorEnv("Target user not found"))
       ELSE Send(st, st.clients[t].id,
                 [type |-> "incoming-call", fromUserId |-> client.userId,
                  callType |-> message.callType])

handleCallUser(st, clientId, message) ==
    LET client == GetClient(st.clients, clientId)
        t == findClientByUserId(st.clients, message.targetUserId)
    IN IF ~Truthy(client.userId) THEN st
       ELSE IF t = 0
       THEN Send(st, clientId, ErrorEnv("Target user not found"))
       ELSE Send(st, st.clients[t].id,
                 [type |-> "incoming-call", fromUserId |-> client.userId,
                  callType |-> message.callType])

\* handleCallResponse that names the target, not the sender, as fromUserId.
handleCallResponse_WrongFrom(st, clientId, message) ==
    LET client == GetClient(st.clients, clientId)
        t == findClientByUserId(st.clients, message.targetUserId)
    IN IF ~Truthy(client.userId) THEN st
       ELSE IF t = 0 THEN st
       ELSE Send(st, st.clients[t].id,
                 [type |-> "call-response", fromUserId |-> message.targetUserId,
                  accepted |-> message.accepted])

\* handleCallResponse that relays only the answer to a call-user relayed
\* before.
handleCallResponse_OnlyAfterCall(st, clientId, message) ==
    LET client == GetClient(st.clients, clientId)
        t == findClientByUserId(st.clients, message.targetUserId)
    IN IF ~Truthy(client.userId) THEN st
       ELSE IF t = 0 THEN st
       ELSE IF <<message.targetUserId, client.userId>> \notin calls THEN st
       ELSE Send(st, st.clients[t].id,
                 [type |-> "call-response", fromUserId |-> client.userId,
                  accepted |-> message.accepted])

handleCallResponse(st, clientId, message) ==
    LET client == GetClient(st.clients, clientId)
        t == findClientByUserId(st.clients, message.targetUserId)
    IN IF ~Truthy(client.userId) THEN st
       ELSE IF t = 0 THEN st
       ELSE Send(st, st.clients[t].id,
                 [type |-> "call-response", fromUserId |-> client.userId,
                  accepted |-> message.accepted])

handleEndCall(st, clientId, message) ==
    LET client == GetClient(st.clients, clientId)
        t == findClientByUserId(st.clients, message.targetUserId)
    IN IF ~Truthy(client.userId) THEN st
       ELSE IF t = 0 THEN st
       ELSE Send(st, st.clients[t].id,
                 [type |-> "call-ended", fromUserId |-> client.userId])

\* handleMessage whose default branch replies with an error.
handleMessage_ErrorOnUnknown(st, clientId, message) ==
    IF ~HasClient(st.clients, clientId) THEN st
    ELSE CASE message.type = "register" ->
                  handleRegister(st, clientId, message.userId)
           [] message.type = "join-room" ->
                  handleJoinRoom(st, clientId, message.roomId)
           [] message.type = "leave-room" -> handleLeaveRoom(st, clientId)
           [] message.type = "chat-message" ->
                  handleChatMessage(st, clientId, message)
           [] message.type \in WebRTCTypes ->
                  handleWebRTCSignaling(st, clientId, message)
           [] message.type = "call-user" -> handleCallUser(st, clientId, message)
           [] message.type = "call-response" ->
                  handleCallResponse(st, clientId, message)
           [] message.type = "end-call" -> handleEndCall(st, clientId, message)
           [] OTHER -> Send(st, clientId, ErrorEnv("Unknown message type"))

handleMessage(st, clientId, message) ==
    IF ~HasClient(st.clients, clientId) THEN st
    ELSE CASE message.type = "register" ->
                  handleRegister(st, clientId, message.userId)
           [] message.type = "join-room" ->
                  handleJoinRoom(st, clientId, message.roomId)
           [] message.type = "leave-room" -> handleLeaveRoom(st, clientId)
           [] message.type = "chat-message" ->
                  handleChatMessage(st, clientId, message)
           [] message.type \in WebRTCTypes ->
                  handleWebRTCSignaling(st, clientId, message)
           [] message.type = "call-user" -> handleCallUser(st, clientId, message)
           [] message.type = "call-response" ->
                  handleCallResponse(st, clientId, message)
           [] message.type = "end-call" -> handleEndCall(st, clientId, message)
           [] OTHER -> st

\* JSON.parse(data.toString()) of a frame that is JSON text and not null: a
\* number has no property type.
JSONparse(data) ==
    IF data.json = "number" THEN [type |-> UNDEFINED] ELSE data.value

\* The exception the try block of the 'message' listener ends with, NULL for
\* none: JSON.parse throws a SyntaxError for text that is not JSON, and
\* handleMessage throws a TypeError when it reads message.type of null.
thrown(st, clientId, data) ==
    CASE data.json = "garbage" -> "SyntaxError"
      [] data.json = "null" /\ HasClient(st.clients, clientId) -> "TypeError"
      [] OTHER -> NULL

\* The 'message' listener without its try/catch.
messageListener_NoCatch(st, clientId, data) ==
    IF thrown(st, clientId, data) # NULL
    THEN [st |-> st, uncaught |-> thrown(st, clientId, data)]
    ELSE [st |-> handleMessage(st, clientId, JSONparse(data)),
          uncaught |-> NULL]

\* The 'message' listener whose catch only logs.
messageListener_SilentCatch(st, clientId, data) ==
    IF thrown(st, clientId, data) # NULL
    THEN [st |-> st, uncaught |-> NULL]
    ELSE [st |-> handleMessage(st, clientId, JSONparse(data)),
          uncaught |-> NULL]

\* The 'message' listener: try { parse, handle } catch { reply with an error }.
\* `uncaught` is the exception that leaves the listener, NULL for none.
messageListener(st, clientId, data) ==
    IF thrown(st, clientId, data) # NULL
    THEN [st |-> Send(st, clientId, ErrorEnv("Invalid message format")),
          uncaught |-> NULL]
    ELSE [st |-> handleMessage(st, clientId, JSONparse(data)),
          uncaught |-> NULL]

----------------------------------------------------------------------------
(* Events of the server *)

\* The state the handlers of one event start from: nothing sent yet.
Start == [clients |-> clients, rooms |-> rooms, sent |-> <<>>]

\* the messenger before the first connection
InitMessenger ==
    /\ clients = <<>>
    /\ rooms = << >>
    /\ nextId = 1
    /\ sent = <<>>
    /\ ev = [kind |-> "start"]
    /\ peers = [c \in ClientIds |->
                   [wire |-> <<>>, typed |-> 0, screen |-> "login",
                    inbox |-> <<>>]]
    /\ calls = {}

Init ==
    /\ InitMessenger
    /\ crypto = [pc |-> "unused"]
    /\ shell = [pc |-> "unused"]
    /\ browser = [pc |-> "unused"]

\* wss.on('connection'): a transport opens and is registered under a fresh id
Connection ==
    /\ nextId <= MaxConns
    /\ clients' = Append(clients, [id |-> nextId, userId |-> NULL,
                                   roomId |-> NULL, readyState |-> OPEN])
    /\ sent' = <<[to |-> nextId,
                  env |-> [type |-> "connected", clientId |-> nextId],
                  delivered |-> TRUE]>>
    /\ nextId' = nextId + 1
    /\ ev' = [kind |-> "connection", from |-> nextId]
    /\ UNCHANGED rooms

\* What an event records of the registry entry its handler found.
Entry(client) == [userId |-> client.userId, roomId |-> client.roomId]

\* ws.on('message') with a frame that parses to the envelope m.
OnMessage(c, m) ==
    /\ HasClient(clients, c)
    /\ LET st == handleMessage(Start, c, m)
       IN /\ clients' = st.clients
          /\ rooms' = st.rooms
          /\ sent' = st.sent
    /\ ev' = [kind |-> "message", from |-> c, msg |-> m,
              client |-> Entry(GetClient(clients, c))]
    /\ UNCHANGED nextId

\* ws.on('close') as it would be if the server ended the calls of the
\* connection: call-ended to the first holder of each userId it had a call
\* with.
OnClose_EndsCalls(c) ==
    /\ HasClient(clients, c)
    /\ LET client == GetClient(clients, c)
           left == IF Truthy(client.roomId)
                   THEN leaveRoom(Start, c, client.roomId)
                   ELSE Start
           partners == {u \in UserIdInputs :
                           /\ <<client.userId, u>> \in calls
                                \/ <<u, client.userId>> \in calls
                           /\ findClientByUserId(clients, u) # 0}
           st == IF partners = {} THEN left
                 ELSE Send(left,
                           clients[findClientByUserId(clients,
                                       CHOOSE u \in partners : TRUE)].id,
                           [type |-> "call-ended",
                            fromUserId |-> client.userId])
       IN /\ clients' = SelectSeq(st.clients, LAMBDA e : e.id # c)
          /\ rooms' = st.rooms
          /\ sent' = st.sent
    /\ ev' = [kind |-> "close", from |-> c,
              client |-> Entry(GetClient(clients, c))]
    /\ UNCHANGED nextId

\* ws.on('close')
OnClose(c) ==
    /\ HasClient(clients, c)
    /\ LET client == GetClient(clients, c)
           st == IF Truthy(client.roomId)
                 THEN leaveRoom(Start, c, client.roomId)
                 ELSE Start
       IN /\ clients' = SelectSeq(st.clients, LAMBDA e : e.id # c)
          /\ rooms' = st.rooms
          /\ sent' = st.sent
    /\ ev' = [kind |-> "close", from |-> c,
              client |-> Entry(GetClient(clients, c))]
    /\ UNCHANGED nextId

\* The transport of c stops being open (readyState leaves OPEN) before its
\* 'close' event is handled.
TransportDown(c) ==
    /\ HasClient(clients, c)
    /\ GetClient(clients, c).readyState = OPEN
    /\ clients' = [clients EXCEPT ![ClientIdx(clients, c)].readyState = CLOSING]
    /\ sent' = <<>>
    /\ ev' = [kind |-> "down", from |-> c]
    /\ UNCHANGED <<rooms, nextId>>

\* Registration, rooms and chat, with transports that can go down.
Next ==
    \/ Connection /\ UNCHANGED hvars
    \/ \E c \in ClientIds, m \in RegisterMessages \cup RoomMessages :
           OnMessage(c, m) /\ UNCHANGED hvars
    \/ \E c \in ClientIds : OnClose(c) /\ UNCHANGED hvars
    \/ \E c \in ClientIds : TransportDown(c) /\ UNCHANGED hvars

Spec == Init /\ [][Next]_vars

\* Registration, joining rooms and the call signaling relay.
NextRelay ==
    \/ Connection /\ UNCHANGED hvars
    \/ \E c \in ClientIds,
          m \in RegisterMessages \cup RelayRoomMessages \cup RelayMessages :
              OnMessage(c, m) /\ UNCHANGED hvars
    \/ \E c \in ClientIds : OnClose(c) /\ UNCHANGED hvars

SpecRelay == Init /\ [][NextRelay]_vars

\* An exception that leaves a listener uncaught ends the process: no event
\* is handled after it.
Running == IF ev.kind = "frame" THEN ev.uncaught = NULL ELSE TRUE

\* ws.on('message') with any frame.
OnFrame(c, data) ==
    /\ Running
    /\ HasClient(clients, c)
    /\ \E r \in {messageListener(Start, c, data)} :
          /\ clients' = r.st.clients
          /\ rooms' = r.st.rooms
          /\ sent' = r.st.sent
          /\ ev' = [kind |-> "frame", from |-> c, data |-> data,
                    client |-> Entry(GetClient(clients, c)),
                    uncaught |-> r.uncaught]
    /\ UNCHANGED <<nextId, hvars>>

\* ws.on('error'): the error is logged.
OnError(c) ==
    /\ Running
    /\ HasClient(clients, c)
    /\ sent' = <<>>
    /\ ev' = [kind |-> "error", from |-> c]
    /\ UNCHANGED <<clients, rooms, nextId, hvars>>

\* Frames of any form, transport errors and closes.
NextFrames ==
    \/ Running /\ Connection /\ UNCHANGED hvars
    \/ \E c \in ClientIds, data \in FrameInputs : OnFrame(c, data)
    \/ \E c \in ClientIds : OnError(c)
    \/ \E c \in ClientIds : Running /\ TransportDown(c) /\ UNCHANGED hvars
    \/ \E c \in ClientIds : Running /\ OnClose(c) /\ UNCHANGED hvars

SpecFrames == Init /\ [][NextFrames]_vars

\* The frames handleLogin of the browser client sends once the transport is
\* open: register, then join-room.
handleLogin(username, roomId) ==
    <<[type |-> "register", userId |-> username],
      [type |-> "join-room", roomId |-> roomId]>>

\* The user submits the login form: handleLogin checks that both fields are
\* filled in, opens the transport and sends its two frames.
Login(username, roomId) ==
    /\ Truthy(username) /\ Truthy(roomId)
    /\ Connection
    /\ peers' = [peers EXCEPT ![nextId].wire = handleLogin(username, roomId)]
    /\ UNCHANGED <<calls, xvars>>

\* the number of chat messages the clients in S have sent
RECURSIVE Typed(_)
Typed(S) == IF S = {} THEN 0
            ELSE LET c == CHOOSE x \in S : TRUE
                 IN peers[c].typed + Typed(S \ {c})

\* sendMessage of the browser client, on the chat screen: the k-th chat
\* message of connection c carries the text <<c, k>>.
SendMessage(c) ==
    /\ HasClient(clients, c)
    /\ peers[c].screen = "chat"
    /\ Typed(ClientIds) < MaxChats
    /\ peers' = [peers EXCEPT
           ![c].typed = @ + 1,
           ![c].wire = Append(@, [type |-> "chat-message",
                                  message |-> <<c, peers[c].typed + 1>>,
                                  encrypted |-> FALSE])]
    /\ UNCHANGED <<clients, rooms, nextId, sent, ev, calls, xvars>>

\* the envelopes of the given types that the event delivered to connection d
DeliveredTo(log, d, types) ==
    MapSeq(SelectSeq(log, LAMBDA e :
               e.to = d /\ e.delivered /\ e.env.type \in types),
           LAMBDA e : e.env)

\* the browser client of d takes in what the event delivered: joined-room
\* shows the chat screen, chat-message envelopes are displayed in order
Deliver(log) ==
    [d \in ClientIds |->
        [peers[d] EXCEPT
            !.screen = IF DeliveredTo(log, d, {"joined-room"}) # <<>>
                       THEN "chat" ELSE @,
            !.inbox = @ \o DeliveredTo(log, d, {"chat-message"})]]

\* ws.on('message') with the newest frame in flight instead of the oldest.
Receive_NewestFirst(c) ==
    /\ peers[c].wire # <<>>
    /\ OnMessage(c, peers[c].wire[Len(peers[c].wire)])
    /\ peers' = [Deliver(sent') EXCEPT
           ![c].wire = SubSeq(peers[c].wire, 1, Len(peers[c].wire) - 1)]
    /\ UNCHANGED <<calls, xvars>>

\* ws.on('message') with the oldest frame of connection c that is in flight:
\* the listener runs to its end before the next frame is taken.
Receive(c) ==
    /\ peers[c].wire # <<>>
    /\ OnMessage(c, Head(peers[c].wire))
    /\ peers' = [Deliver(sent') EXCEPT ![c].wire = Tail(peers[c].wire)]
    /\ UNCHANGED <<calls, xvars>>

\* ws.on('close'): frames of c still in flight are lost.
Disconnect(c) ==
    /\ OnClose(c)
    /\ peers' = [Deliver(sent') EXCEPT ![c].wire = <<>>]
    /\ UNCHANGED <<calls, xvars>>

\* Browser clients that log in and chat, and the server taking their frames
\* in the order they were sent.
NextOrder ==
    \/ \E username \in UsernameInputs, roomId \in LoginRoomInputs :
           Login(username, roomId)
    \/ \E c \in ClientIds : SendMessage(c)
    \/ \E c \in ClientIds : Receive(c)
    \/ \E c \in ClientIds : Disconnect(c)

SpecOrder == Init /\ [][NextOrder]_vars

\* A relayed call-user is remembered in calls.
Called(c, m) ==
    IF m.type = "call-user" /\ Truthy(GetClient(clients, c).userId)
          /\ findClientByUserId(clients, m.targetUserId) # 0
    THEN {<<GetClient(clients, c).userId, m.targetUserId>>}
    ELSE {}

\* ws.on('message'), with the history of calls kept beside the server.
OnCallMessage(c, m) ==
    /\ OnMessage(c, m)
    /\ calls' = calls \cup Called(c, m)
    /\ UNCHANGED <<peers, xvars>>

\* Registration, one room, the call signaling relay and disconnects.
NextCalls ==
    \/ Connection /\ UNCHANGED hvars
    \/ \E c \in ClientIds,
          m \in RegisterMessages \cup [type : {"join-room"}, roomId : {"r1"}]
                   \cup CallStateMessages :
              OnCallMessage(c, m)
    \/ \E c \in ClientIds : OnClose(c) /\ UNCHANGED hvars

SpecCalls == Init /\ [][NextCalls]_vars

\* Registration with any userId, one room, chat and disconnects.
NextRegister ==
    \/ Connection /\ UNCHANGED hvars
    \/ \E c \in ClientIds,
          m \in AnyRegisterMessages
                   \cup [type : {"join-room"}, roomId : {"r1"}]
                   \cup [type : {"leave-room"}]
                   \cup [type : {"chat-message"}, message : TextInputs,
                         encrypted : {FALSE}] :
              OnMessage(c, m) /\ UNCHANGED hvars
    \/ \E c \in ClientIds : OnClose(c) /\ UNCHANGED hvars

SpecRegister == Init /\ [][NextRegister]_vars

----------------------------------------------------------------------------
(* The encryption module (src/unnamed/part_007) *)

\* Length, in UTF-16 code units, of the plaintexts encrypted.
MaxLen == 2

\* UTF-16 code units a message is made of: "A", a Cyrillic letter (two
\* bytes in UTF-8), a CJK character (three bytes), the two halves of the
\* surrogate pair of U+1F680 (four bytes) and U+FEFF.
CodeUnits == {65, 1046, 19990, 55357, 56960, 65279}

\* JS strings of at most MaxLen code units
Plaintexts == UNION {[1..n -> CodeUnits] : n \in 0..MaxLen}

\* AES-GCM keys, by their secret; the raw key is 32 bytes
SymmetricKeys == {[algorithm |-> "AES-GCM", secret |-> k] : k \in {7, 200}}

\* crypto.getRandomValues(new Uint8Array(12))
IvInputs == {[i \in 1..12 |-> 0], [i \in 1..12 |-> (21 * i) % 256]}

IsHighSurrogate(u) == 55296 <= u /\ u <= 56319
IsLowSurrogate(u) == 56320 <= u /\ u <= 57343

\* The conversion of a JS string to scalar values that TextEncoder.encode
\* starts with: a surrogate pair is one code point, a surrogate without its
\* other half is replaced by U+FFFD.
RECURSIVE ToScalarValues(_)
ToScalarValues(s) ==
    IF s = <<>> THEN <<>>
    ELSE IF IsHighSurrogate(s[1]) /\ Len(s) >= 2 /\ IsLowSurrogate(s[2])
    THEN <<65536 + (s[1] - 55296) * 1024 + (s[2] - 56320)>>
             \o ToScalarValues(SubSeq(s, 3, Len(s)))
    ELSE IF IsHighSurrogate(s[1]) \/ IsLowSurrogate(s[1])
    THEN <<65533>> \o ToScalarValues(Tail(s))
    ELSE <<s[1]>> \o ToScalarValues(Tail(s))

\* the UTF-8 bytes of one code point
Utf8Bytes(cp) ==
    IF cp < 128 THEN <<cp>>
    ELSE IF cp < 2048 THEN <<192 + (cp \div 64), 128 + (cp % 64)>>
    ELSE IF cp < 65536
    THEN <<224 + (cp \div 4096), 128 + ((cp \div 64) % 64), 128 + (cp % 64)>>
    ELSE <<240 + (cp \div 262144), 128 + ((cp \div 4096) % 64),
           128 + ((cp \div 64) % 64), 128 + (cp % 64)>>

RECURSIVE Utf8Encode(_)
Utf8Encode(cps) ==
    IF cps = <<>> THEN <<>> ELSE Utf8Bytes(cps[1]) \o Utf8Encode(Tail(cps))

\* new TextEncoder().encode(message)
TextEncoderEncode(message) == Utf8Encode(ToScalarValues(message))

IsContinuation(b) == 128 <= b /\ b < 192

\* the UTF-16 code units of one code point
Utf16Units(cp) ==
    IF cp < 65536 THEN <<cp>>
    ELSE <<55296 + ((cp - 65536) \div 1024), 56320 + ((cp - 65536) % 1024)>>

\* UTF-8 decoding to code units; a byte that starts no well-formed sequence
\* gives U+FFFD
RECURSIVE Utf8Decode(_)
Utf8Decode(b) ==
    IF b = <<>> THEN <<>>
    ELSE IF b[1] < 128 THEN <<b[1]>> \o Utf8Decode(Tail(b))
    ELSE IF /\ 192 <= b[1] /\ b[1] < 224 /\ Len(b) >= 2
            /\ IsContinuation(b[2])
    THEN Utf16Units((b[1] - 192) * 64 + (b[2] - 128))
             \o Utf8Decode(SubSeq(b, 3, Len(b)))
    ELSE IF /\ 224 <= b[1] /\ b[1] < 240 /\ Len(b) >= 3
            /\ IsContinuation(b[2]) /\ IsContinuation(b[3])
    THEN Utf16Units((b[1] - 224) * 4096 + (b[2] - 128) * 64 + (b[3] - 128))
             \o Utf8Decode(SubSeq(b, 4, Len(b)))
    ELSE IF /\ 240 <= b[1] /\ b[1] < 248 /\ Len(b) >= 4
            /\ IsContinuation(b[2]) /\ IsContinuation(b[3])
            /\ IsContinuation(b[4])
    THEN Utf16Units((b[1] - 240) * 262144 + (b[2] - 128) * 4096
                        + (b[3] - 128) * 64 + (b[4] - 128))
             \o Utf8Decode(SubSeq(b, 5, Len(b)))
    ELSE <<65533>> \o Utf8Decode(Tail(b))

\* new TextDecoder().decode(data): UTF-8 with ignoreBOM false, so a byte
\* order mark at the start of the data is not part of the result
TextDecoderDecode(data) ==
    IF Len(data) >= 3 /\ SubSeq(data, 1, 3) = <<239, 187, 191>>
    THEN Utf8Decode(SubSeq(data, 4, Len(data)))
    ELSE Utf8Decode(data)

\* btoa of the binary string of the bytes: the characters of the base64
\* text by their index in the base64 alphabet, 64 for the padding "="
RECURSIVE btoa(_)
btoa(b) ==
    IF b = <<>> THEN <<>>
    ELSE IF Len(b) = 1 THEN <<b[1] \div 4, (b[1] % 4) * 16, 64, 64>>
    ELSE IF Len(b) = 2
    THEN <<b[1] \div 4, (b[1] % 4) * 16 + (b[2] \div 16), (b[2] % 16) * 4, 64>>
    ELSE <<b[1] \div 4, (b[1] % 4) * 16 + (b[2] \div 16),
           (b[2] % 16) * 4 + (b[3] \div 64), b[3] % 64>>
             \o btoa(SubSeq(b, 4, Len(b)))

RECURSIVE atob(_)
atob(t) ==
    IF Len(t) < 4 THEN <<>>
    ELSE (IF t[3] = 64 THEN <<t[1] * 4 + (t[2] \div 16)>>
          ELSE IF t[4] = 64
          THEN <<t[1] * 4 + (t[2] \div 16), (t[2] % 16) * 16 + (t[3] \div 4)>>
          ELSE <<t[1] * 4 + (t[2] \div 16), (t[2] % 16) * 16 + (t[3] \div 4),
                 (t[3] % 4) * 64 + t[4]>>)
             \o atob(SubSeq(t, 5, Len(t)))

\* String.fromCharCode of each byte, then btoa
arrayBufferToBase64(buffer) == btoa(buffer)

\* atob, then charCodeAt of each character
base64ToArrayBuffer(base64) == atob(base64)

RECURSIVE SumBytes(_)
SumBytes(b) == IF b = <<>> THEN 0 ELSE (b[1] + SumBytes(Tail(b))) % 256

\* AES-GCM as a cipher with authentication: a key stream that depends on key
\* and iv, and a 16-byte tag over key, iv and ciphertext
KeyStream(key, iv, i) == (key.secret + iv[1] + 3 * i) % 256

AuthTag(key, iv, ciphertext) ==
    [i \in 1..16 |-> (key.secret + iv[12] + SumBytes(ciphertext) + i) % 256]

\* crypto.subtle.encrypt({name: 'AES-GCM', iv}, key, data)
subtleEncrypt(key, iv, data) ==
    LET ciphertext == [i \in 1..Len(data) |->
                          (data[i] + KeyStream(key, iv, i)) % 256]
    IN ciphertext \o AuthTag(key, iv, ciphertext)

Thrown == [thrown |-> TRUE, value |-> <<>>]
Returned(v) == [thrown |-> FALSE, value |-> v]

\* crypto.subtle.decrypt({name: 'AES-GCM', iv}, key, data): rejects when the
\* tag does not authenticate the ciphertext under key and iv
subtleDecrypt(key, iv, data) ==
    IF Len(data) < 16 THEN Thrown
    ELSE LET ciphertext == SubSeq(data, 1, Len(data) - 16)
             tag == SubSeq(data, Len(data) - 15, Len(data))
         IN IF tag # AuthTag(key, iv, ciphertext) THEN Thrown
            ELSE Returned([i \in 1..Len(ciphertext) |->
                     (ciphertext[i] + 256 - KeyStream(key, iv, i)) % 256])

\* encryptMessage(message, key), with the iv it draws
encryptMessage(message, key, iv) ==
    arrayBufferToBase64(iv \o subtleEncrypt(key, iv, TextEncoderEncode(message)))

\* decryptMessage that takes the first 16 bytes as the iv.
decryptMessage_LongIv(encryptedMessage, key) ==
    LET data == base64ToArrayBuffer(encryptedMessage)
        iv == SubSeq(data, 1, 16)
        encryptedData == SubSeq(data, 17, Len(data))
        decryptedData == subtleDecrypt(key, iv, encryptedData)
    IN IF decryptedData.thrown THEN Thrown
       ELSE Returned(TextDecoderDecode(decryptedData.value))

\* decryptMessage(encryptedMessage, key)
decryptMessage(encryptedMessage, key) ==
    LET data == base64ToArrayBuffer(encryptedMessage)
        iv == SubSeq(data, 1, 12)
        encryptedData == SubSeq(data, 13, Len(data))
        decryptedData == subtleDecrypt(key, iv, encryptedData)
    IN IF decryptedData.thrown THEN Thrown
       ELSE Returned(TextDecoderDecode(decryptedData.value))

\* crypto.subtle.exportKey('raw', key): the 32 bytes of the key
rawKey(key) == [i \in 1..32 |-> (key.secret + i) % 256]

\* exportSymmetricKey(key)
exportSymmetricKey(key) == arrayBufferToBase64(rawKey(key))

\* importSymmetricKey(keyData)
importSymmetricKey(keyData) ==
    LET buffer == base64ToArrayBuffer(keyData)
    IN [algorithm |-> "AES-GCM", secret |-> (buffer[1] + 255) % 256]

\* the key a decryption is made with: the key that encrypted, that key after
\* exportSymmetricKey and importSymmetricKey, or another key
DecryptionKey(which) ==
    CASE which = "original" -> crypto.key
      [] which = "imported" ->
             importSymmetricKey(exportSymmetricKey(crypto.key))
      [] which = "other" ->
             CHOOSE k \in SymmetricKeys : k # crypto.key

InitCrypto ==
    /\ InitMessenger
    /\ shell = [pc |-> "unused"]
    /\ browser = [pc |-> "unused"]
    /\ \E message \in Plaintexts, key \in SymmetricKeys :
           crypto = [pc |-> "ready", message |-> message, key |-> key]

\* const encrypted = await crypto.encryptMessage(message, key)
Encrypt(iv) ==
    /\ crypto.pc = "ready"
    /\ crypto' = [pc |-> "encrypted", message |-> crypto.message,
                  key |-> crypto.key,
                  encrypted |-> encryptMessage(crypto.message, crypto.key, iv)]
    /\ UNCHANGED <<mvars, shell, browser>>

\* const decrypted = await crypto.decryptMessage(encrypted, key)
Decrypt(which) ==
    /\ crypto.pc = "encrypted"
    /\ crypto' = [pc |-> "decrypted", message |-> crypto.message,
                  key |-> crypto.key, encrypted |-> crypto.encrypted,
                  with |-> which,
                  decrypted |-> decryptMessage(crypto.encrypted,
                                               DecryptionKey(which))]
    /\ UNCHANGED <<mvars, shell, browser>>

\* One message encrypted, then decrypted.
NextCrypto ==
    \/ \E iv \in IvInputs : Encrypt(iv)
    \/ \E which \in {"original", "imported", "other"} : Decrypt(which)

SpecCrypto == InitCrypto /\ [][NextCrypto]_vars

----------------------------------------------------------------------------
(* The shell executor (src/unnamed/part_003) *)

\* Number of words of a command line.
MaxWords == 2

\* Words of a command line; "*", ">" and "|" stand for a word that holds
\* that character.
WordInputs == {"rm", "sudo", "ls", "file", "*", ">", "|"}

CommandInputs == UNION {[1..n -> WordInputs] : n \in 1..MaxWords}

\* DEFAULT_DANGEROUS_COMMANDS (the entries that are among the words)
DEFAULT_DANGEROUS_COMMANDS == {"rm", "sudo"}

\* options.dangerousList: the default or a list given by the caller
DangerousListInputs == {DEFAULT_DANGEROUS_COMMANDS, {}}

\* what the user may type at the [y/N] prompt
AnswerInputs == {"y", "YES", "n", ""}

\* command.includes(ch)
Includes(command, ch) == \E i \in 1..Len(command) : command[i] = ch

\* isDangerousCommand(command, dangerousList): the first word has no white
\* space, so neither the replace of /^sudo\s+/ nor the startsWith of a list
\* entry followed by a space ever applies to it
isDangerousCommand(command, dangerousList) ==
    LET firstWord == command[1]
        baseCommand == firstWord
    IN \E dangerous \in dangerousList :
           \/ baseCommand = dangerous
           \/ Includes(command, "*")
           \/ Includes(command, ">")
           \/ Includes(command, "|")

\* answer.toLowerCase()
toLowerCase(answer) == IF answer = "YES" THEN "yes" ELSE answer

\* the value confirmCommand resolves with
confirmCommand(answer) ==
    toLowerCase(answer) = "y" \/ toLowerCase(answer) = "yes"

Cancelled ==
    [success |-> FALSE, stdout |-> "", stderr |-> "Command cancelled by user",
     exitCode |-> 130, cancelled |-> TRUE]

InitShell ==
    /\ InitMessenger
    /\ crypto = [pc |-> "unused"]
    /\ browser = [pc |-> "unused"]
    /\ \E command \in CommandInputs, yoloMode \in BOOLEAN,
          dangerousList \in DangerousListInputs :
           shell = [pc |-> "called", command |-> command,
                    yoloMode |-> yoloMode, dangerousList |-> dangerousList,
                    asked |-> FALSE, answer |-> NULL, executed |-> FALSE,
                    result |-> NULL]

\* executeShellCommand up to the prompt, or up to execSync when there is no
\* prompt
Check ==
    /\ shell.pc = "called"
    /\ shell' = IF ~shell.yoloMode
                   /\ isDangerousCommand(shell.command, shell.dangerousList)
                THEN [shell EXCEPT !.pc = "confirming", !.asked = TRUE]
                ELSE [shell EXCEPT !.pc = "executing"]
    /\ UNCHANGED <<mvars, crypto, browser>>

\* The user's answer as it would be handled if a refusal did not return.
Confirm_ExecutesAnyway(answer) ==
    /\ shell.pc = "confirming"
    /\ shell' = [shell EXCEPT !.pc = "executing", !.answer = answer]
    /\ UNCHANGED <<mvars, crypto, browser>>

\* the user answers the prompt: executeShellCommand returns the cancelled
\* result or goes on to execSync
Confirm(answer) ==
    /\ shell.pc = "confirming"
    /\ shell' = IF ~confirmCommand(answer)
                THEN [shell EXCEPT !.pc = "returned", !.answer = answer,
                                   !.result = Cancelled]
                ELSE [shell EXCEPT !.pc = "executing", !.answer = answer]
    /\ UNCHANGED <<mvars, crypto, browser>>

\* execSync(command) and the result built from its outcome; status is
\* error.status of a failed command, 0 for a command that succeeded
Execute(status) ==
    /\ shell.pc = "executing"
    /\ shell' = [shell EXCEPT
           !.pc = "returned",
           !.executed = TRUE,
           !.result = IF status = 0
                      THEN [success |-> TRUE, stdout |-> "out", stderr |-> "",
                            exitCode |-> 0]
                      ELSE [success |-> FALSE, stdout |-> "", stderr |-> "err",
                            exitCode |-> status]]
    /\ UNCHANGED <<mvars, crypto, browser>>

\* One call of executeShellCommand.
NextShell ==
    \/ Check
    \/ \E answer \in AnswerInputs : Confirm(answer)
    \/ \E status \in {0, 1, 2} : Execute(status)

SpecShell == InitShell /\ [][NextShell]_vars

----------------------------------------------------------------------------
(* The browser client: presence (src/messenger/client/app.js, 252-289) *)

\* handleJoinedRoom: state.users = new Set(message.users.filter(...))
handleJoinedRoom(state, message) ==
    [state EXCEPT !.users = SeqToSet(message.users) \ {state.userId}]

\* handleUserJoined
handleUserJoined(state, message) ==
    IF message.userId # state.userId
    THEN [state EXCEPT !.users = @ \cup {message.userId}]
    ELSE state

\* handleUserLeft
handleUserLeft(state, message) ==
    [state EXCEPT !.users = @ \ {message.userId}]

\* handleServerMessage, for the envelopes that change state.users
handlePresenceMessage(state, message) ==
    CASE message.type = "joined-room" -> handleJoinedRoom(state, message)
      [] message.type = "user-joined" -> handleUserJoined(state, message)
      [] message.type = "user-left" -> handleUserLeft(state, message)
      [] OTHER -> state

\* state.ws.onmessage for each envelope of a sequence, in order
RECURSIVE HandleAll(_, _)
HandleAll(state, envelopes) ==
    IF envelopes = <<>> THEN state
    ELSE HandleAll(handlePresenceMessage(state, Head(envelopes)),
                   Tail(envelopes))

\* every browser client takes in what the event delivered to it
Observe(states, log) ==
    [d \in ClientIds |->
        HandleAll(states[d],
                  DeliveredTo(log, d, {"joined-room", "user-joined",
                                       "user-left"}))]

InitPresence ==
    /\ InitMessenger
    /\ crypto = [pc |-> "unused"]
    /\ shell = [pc |-> "unused"]
    /\ browser = [c \in ClientIds |-> [userId |-> NULL, users |-> {}]]

\* A frame of connection c is handled by the server and the envelopes it
\* sends are handled by the clients; state.userId is the userId the client
\* put in its register message (handleLogin, lines 211 and 234-237).
PresenceMessage(c, m) ==
    /\ OnMessage(c, m)
    /\ browser' = Observe(IF m.type = "register"
                          THEN [browser EXCEPT ![c].userId = m.userId]
                          ELSE browser,
                          sent')
    /\ UNCHANGED <<peers, calls, crypto, shell>>

\* The transport of c closes; the clients that remain handle user-left.
PresenceClose(c) ==
    /\ OnClose(c)
    /\ browser' = Observe(browser, sent')
    /\ UNCHANGED <<peers, calls, crypto, shell>>

\* Clients that register, join and leave one room and disconnect, and keep
\* their list of the users of the room.
NextPresence ==
    \/ Connection /\ UNCHANGED hvars
    \/ \E c \in ClientIds,
          m \in RegisterMessages \cup [type : {"join-room"}, roomId : {"r1"}]
                   \cup [type : {"leave-room"}] :
              PresenceMessage(c, m)
    \/ \E c \in ClientIds : PresenceClose(c)

SpecPresence == InitPresence /\ [][NextPresence]_vars

----------------------------------------------------------------------------
(* The browser client: encrypted chat (src/messenger/client/app.js, 197-356) *)

\* state.symmetricKey of a client that logged in without encryption (null)
NoKey == [algorithm |-> "none", secret |-> 0]

\* the text typed in the message box: "Hi"
ChatTextInputs == {<<72, 105>>}

\* sendMessage: the chat-message envelope for a text
sendMessage(state, text, iv) ==
    IF state.encryptionEnabled /\ state.symmetricKey # NoKey
    THEN [type |-> "chat-message",
          message |-> encryptMessage(text, state.symmetricKey, iv),
          encrypted |-> TRUE]
    ELSE [type |-> "chat-message", message |-> text, encrypted |-> FALSE]

\* handleChatMessage of the client: what displayMessage is called with;
\* unable stands for the text '[Unable to decrypt message]'
displayMessage(state, message) ==
    LET decrypted == decryptMessage(message.message, state.symmetricKey)
    IN IF message.encrypted /\ state.symmetricKey # NoKey
       THEN [userId |-> message.userId, encrypted |-> message.encrypted,
             unable |-> decrypted.thrown, text |-> decrypted.value]
       ELSE [userId |-> message.userId, encrypted |-> message.encrypted,
             unable |-> FALSE, text |-> message.message]

\* every client displays the chat messages the event delivered to it
Display(log) ==
    [d \in ClientIds |->
        [browser[d] EXCEPT
            !.shown = @ \o MapSeq(DeliveredTo(log, d, {"chat-message"}),
                                  LAMBDA m : displayMessage(browser[d], m))]]

InitE2E ==
    /\ InitMessenger
    /\ crypto = [pc |-> "unused"]
    /\ shell = [pc |-> "unused"]
    /\ browser = [c \in ClientIds |->
                     [userId |-> NULL, encryptionEnabled |-> FALSE,
                      symmetricKey |-> NoKey, shown |-> <<>>]]

\* handleLogin with the encryption box checked or not: the client generates
\* its own key, connects and sends register and join-room
LoginE2E(username, encryptionEnabled, key) ==
    /\ Connection
    /\ peers' = [peers EXCEPT ![nextId].wire = handleLogin(username, "r1")]
    /\ browser' = [browser EXCEPT ![nextId] =
           [userId |-> username, encryptionEnabled |-> encryptionEnabled,
            symmetricKey |-> IF encryptionEnabled THEN key ELSE NoKey,
            shown |-> <<>>]]
    /\ UNCHANGED <<calls, crypto, shell>>

\* sendMessage on the chat screen
SendE2E(c, text, iv) ==
    /\ HasClient(clients, c)
    /\ peers[c].screen = "chat"
    /\ Typed(ClientIds) < MaxChats
    /\ peers' = [peers EXCEPT
           ![c].typed = @ + 1,
           ![c].wire = Append(@, sendMessage(browser[c], text, iv))]
    /\ UNCHANGED <<clients, rooms, nextId, sent, ev, calls, crypto, shell,
                   browser>>

\* ws.on('message') with the oldest frame of c in flight; the clients
\* display the chat messages it sends them
ReceiveE2E(c) ==
    /\ peers[c].wire # <<>>
    /\ OnMessage(c, Head(peers[c].wire))
    /\ peers' = [Deliver(sent') EXCEPT ![c].wire = Tail(peers[c].wire)]
    /\ browser' = Display(sent')
    /\ UNCHANGED <<calls, crypto, shell>>

\* Browser clients that log in to one room, with or without encryption, and
\* chat.
NextE2E ==
    \/ \E username \in UserIdInputs, encryptionEnabled \in BOOLEAN,
          key \in SymmetricKeys :
           LoginE2E(username, encryptionEnabled, key)
    \/ \E c \in ClientIds, text \in ChatTextInputs, iv \in IvInputs :
           SendE2E(c, text, iv)
    \/ \E c \in ClientIds : ReceiveE2E(c)

SpecE2E == InitE2E /\ [][NextE2E]_vars

----------------------------------------------------------------------------
(* The browser client: calls (src/messenger/client/app.js, 441-664) *)

\* Number of calls the users start during one run.
MaxCalls == 1

\* state.currentCall when there is no call (null)
NoCall == [targetUserId |-> NULL, callType |-> NULL, isInitiator |-> FALSE]

\* what is known of the last envelope a client handled
NoEnvelope ==
    [handler |-> "none", hadCall |-> FALSE, accepted |-> FALSE,
     answered |-> FALSE]

\* The state object of a client that is not in a call.  ringing: the accept
\* and reject buttons are shown; inCall: the end-call button is shown;
\* accepted: the user accepted the current call, or the callee's acceptance
\* arrived (kept for the properties, the code has no such field); dialed:
\* calls started; last: the last envelope handled.
IdleState ==
    [userId |-> NULL, transferMode |-> "server", currentCall |-> NoCall,
     peerConnection |-> FALSE, localStream |-> FALSE, ringing |-> FALSE,
     inCall |-> FALSE, accepted |-> FALSE, dialed |-> 0, last |-> NoEnvelope]

\* a state and the frames sent to the server from it
Out(state, frames) == [state |-> state, out |-> frames]

\* cleanupCall
cleanupCall(state) ==
    [state EXCEPT !.localStream = FALSE, !.peerConnection = FALSE,
                  !.inCall = FALSE, !.ringing = FALSE, !.accepted = FALSE,
                  !.currentCall = NoCall]

\* setupWebRTC, with getUserMedia granted (media) or refused: the stream and
\* the peer connection, and the offer when the client started the call; an
\* exception (media refused, or currentCall null when isInitiator is read)
\* ends in cleanupCall.  The ICE candidates the browser reports later are
\* left out.
setupWebRTC(state, media) ==
    IF ~media THEN Out(cleanupCall(state), <<>>)
    ELSE IF state.currentCall = NoCall
    THEN Out(cleanupCall(state), <<>>)
    ELSE Out([state EXCEPT !.localStream = TRUE, !.peerConnection = TRUE],
             IF state.currentCall.isInitiator
             THEN <<[type |-> "webrtc-offer",
                     targetUserId |-> state.currentCall.targetUserId,
                     data |-> "sdp"]>>
             ELSE <<>>)

\* initiateCall(callType), with the target chosen in the drop-down
initiateCall(state, targetUserId, callType, media) ==
    LET called == [state EXCEPT
                      !.currentCall = [targetUserId |-> targetUserId,
                                       callType |-> callType,
                                       isInitiator |-> TRUE],
                      !.accepted = FALSE,
                      !.dialed = @ + 1]
        callUser == [type |-> "call-user", targetUserId |-> targetUserId,
                     callType |-> callType]
        setup == setupWebRTC(called, media)
    IN IF state.transferMode = "p2p"
       THEN Out(setup.state, <<callUser>> \o setup.out)
       ELSE Out(called, <<callUser>>)

\* handleIncomingCall
handleIncomingCall(state, message) ==
    [state EXCEPT
        !.currentCall = [targetUserId |-> message.fromUserId,
                         callType |-> message.callType,
                         isInitiator |-> FALSE],
        !.accepted = FALSE,
        !.ringing = TRUE]

\* acceptCall, for a current call
acceptCall(state, media) ==
    LET answered == [state EXCEPT !.ringing = FALSE, !.inCall = TRUE,
                                  !.accepted = TRUE]
        response == [type |-> "call-response",
                     targetUserId |-> state.currentCall.targetUserId,
                     accepted |-> TRUE]
        setup == setupWebRTC(answered, media)
    IN IF state.transferMode = "p2p"
       THEN Out(setup.state, <<response>> \o setup.out)
       ELSE Out(answered, <<response>>)

\* rejectCall, for a current call
rejectCall(state) ==
    Out([state EXCEPT !.ringing = FALSE, !.currentCall = NoCall,
                      !.accepted = FALSE],
        <<[type |-> "call-response",
           targetUserId |-> state.currentCall.targetUserId,
           accepted |-> FALSE]>>)

\* endCall, for a current call
endCall(state) ==
    Out(cleanupCall(state),
        <<[type |-> "end-call",
           targetUserId |-> state.currentCall.targetUserId]>>)

\* handleCallResponse of the client
handleCallResponseClient(state, message) ==
    IF ~message.accepted
    THEN [state EXCEPT !.currentCall = NoCall, !.accepted = FALSE]
    ELSE [state EXCEPT !.inCall = TRUE, !.accepted = TRUE]

\* handleWebRTCSignaling of the client: without a peer connection it sets
\* one up first (a TypeError when currentCall is null: the handler ends
\* there); an offer is answered when there is a peer connection
handleWebRTCSignalingClient(state, message, media) ==
    LET seen == [handler |-> "handleWebRTCSignaling",
                 hadCall |-> state.currentCall # NoCall,
                 accepted |-> state.accepted,
                 answered |-> FALSE]
        setup == IF state.peerConnection THEN Out(state, <<>>)
                 ELSE setupWebRTC(state, media)
        answers == message.type = "webrtc-offer" /\ setup.state.peerConnection
    IN IF ~state.peerConnection /\ state.currentCall = NoCall
       THEN Out([state EXCEPT !.last = seen], <<>>)
       ELSE Out([setup.state EXCEPT !.last = [seen EXCEPT !.answered = answers]],
                setup.out
                \o IF answers
                   THEN <<[type |-> "webrtc-answer",
                           targetUserId |-> message.fromUserId,
                           data |-> "sdp"]>>
                   ELSE <<>>)

\* handleServerMessage, for the envelopes of a call
handleCallEnvelope(state, message, media) ==
    CASE message.type = "incoming-call" ->
             Out([handleIncomingCall(state, message) EXCEPT
                     !.last = [NoEnvelope EXCEPT !.handler = "handleIncomingCall"]],
                 <<>>)
      [] message.type = "call-response" ->
             Out([handleCallResponseClient(state, message) EXCEPT
                     !.last = [NoEnvelope EXCEPT !.handler = "handleCallResponse"]],
                 <<>>)
      [] message.type = "call-ended" ->
             Out([cleanupCall(state) EXCEPT
                     !.last = [NoEnvelope EXCEPT !.handler = "handleCallEnded"]],
                 <<>>)
      [] message.type \in WebRTCTypes ->
             handleWebRTCSignalingClient(state, message, media)
      [] OTHER -> Out(state, <<>>)

\* state.ws.onmessage for each envelope of a sequence, in order
RECURSIVE HandleCalls(_, _, _)
HandleCalls(acc, envelopes, media) ==
    IF envelopes = <<>> THEN acc
    ELSE LET r == handleCallEnvelope(acc.state, Head(envelopes), media)
         IN HandleCalls(Out(r.state, acc.out \o r.out), Tail(envelopes), media)

CallEnvelopeTypes ==
    {"incoming-call", "call-response", "call-ended"} \cup WebRTCTypes

\* what each client makes of the envelopes the event delivered to it
Handled(log, media) ==
    [d \in ClientIds |->
        HandleCalls(Out(browser[d], <<>>),
                    DeliveredTo(log, d, CallEnvelopeTypes), media)]

\* the number of calls the clients in S have started
RECURSIVE Dialed(_)
Dialed(S) == IF S = {} THEN 0
             ELSE LET c == CHOOSE x \in S : TRUE
                  IN browser[c].dialed + Dialed(S \ {c})

InitWebRTC ==
    /\ InitMessenger
    /\ crypto = [pc |-> "unused"]
    /\ shell = [pc |-> "unused"]
    /\ browser = [c \in ClientIds |-> IdleState]

\* handleLogin with the transfer mode chosen
LoginCall(username, transferMode) ==
    /\ Connection
    /\ peers' = [peers EXCEPT ![nextId].wire = handleLogin(username, "r1")]
    /\ browser' = [browser EXCEPT
           ![nextId] = [IdleState EXCEPT !.userId = username,
                                         !.transferMode = transferMode]]
    /\ UNCHANGED <<calls, crypto, shell>>

\* a step of the user of client c that gives the state and the frames r
UserStep(c, r) ==
    /\ browser' = [browser EXCEPT ![c] = r.state]
    /\ peers' = [peers EXCEPT ![c].wire = @ \o r.out]
    /\ UNCHANGED <<clients, rooms, nextId, sent, ev, calls, crypto, shell>>

\* the user picks a target and presses a call button
InitiateCall(c, targetUserId, callType, media) ==
    /\ HasClient(clients, c)
    /\ peers[c].screen = "chat"
    /\ targetUserId # browser[c].userId
    /\ Dialed(ClientIds) < MaxCalls
    /\ \E r \in {initiateCall(browser[c], targetUserId, callType, media)} :
           UserStep(c, r)

\* the user presses Accept, which is shown while a call is coming in
AcceptCall(c, media) ==
    /\ HasClient(clients, c)
    /\ browser[c].ringing
    /\ browser[c].currentCall # NoCall
    /\ \E r \in {acceptCall(browser[c], media)} : UserStep(c, r)

\* the user presses Reject
RejectCall(c) ==
    /\ HasClient(clients, c)
    /\ browser[c].ringing
    /\ browser[c].currentCall # NoCall
    /\ \E r \in {rejectCall(browser[c])} : UserStep(c, r)

\* the user presses End Call, which is shown during a call
EndCall(c) ==
    /\ HasClient(clients, c)
    /\ browser[c].inCall
    /\ browser[c].currentCall # NoCall
    /\ \E r \in {endCall(browser[c])} : UserStep(c, r)

\* ws.on('message') with the oldest frame of c in flight; the clients handle
\* the envelopes it sends them and send their own frames
ReceiveCall(c, media) ==
    /\ peers[c].wire # <<>>
    /\ OnMessage(c, Head(peers[c].wire))
    /\ \E h \in {Handled(sent', media)} :
           /\ browser' = [d \in ClientIds |-> h[d].state]
           /\ peers' = [d \in ClientIds |->
                           [Deliver(sent')[d] EXCEPT
                               !.wire = (IF d = c THEN Tail(peers[d].wire)
                                         ELSE peers[d].wire) \o h[d].out]]
    /\ UNCHANGED <<calls, crypto, shell>>

\* Browser clients that log in to one room and call each other.
NextWebRTC ==
    \/ \E username \in UserIdInputs, transferMode \in {"server", "p2p"} :
           LoginCall(username, transferMode)
    \/ \E c \in ClientIds, targetUserId \in UserIdInputs,
          callType \in CallTypes, media \in BOOLEAN :
           InitiateCall(c, targetUserId, callType, media)
    \/ \E c \in ClientIds, media \in BOOLEAN : AcceptCall(c, media)
    \/ \E c \in ClientIds : RejectCall(c)
    \/ \E c \in ClientIds : EndCall(c)
    \/ \E c \in ClientIds, media \in BOOLEAN : ReceiveCall(c, media)

SpecWebRTC == InitWebRTC /\ [][NextWebRTC]_vars


----------------------------------------------------------------------------
(* Vocabulary of the properties *)

Members(r) == SeqToSet(rooms[r])

\* the rooms whose member set holds connection c
RoomsOf(c) == {r \in DOMAIN rooms : c \in Members(r)}

IsMessage(types) == ev.kind = "message" /\ ev.msg.type \in types

\* the envelopes sent to connection c by the last event, in order
EnvelopesTo(c) ==
    MapSeq(SelectSeq(sent, LAMBDA e : e.to = c), LAMBDA e : e.env)

IsOpen(c) == HasClient(clients, c) /\ GetClient(clients, c).readyState = OPEN

\* some registered connection holds this userId
SomeClientHas(userId) == \E i \in 1..Len(clients) : clients[i].userId = userId

----------------------------------------------------------------------------
(* Rooms *)

\* C1: after any sequence of register, join-room, leave-room and disconnect
\* events, with any roomId values, every connection id is a member of at most
\* one room's member set.
C1_AtMostOneRoom == \A c \in ClientIds : Cardinality(RoomsOf(c)) <= 1

\* C2: the room map has an entry for a roomId exactly when that room has
\* members: no entry has an empty member set, and the room a registry entry
\* names always has an entry that holds that connection.
C2_RoomExistsIffNonEmpty ==
    /\ \A r \in DOMAIN rooms : rooms[r] # <<>>
    /\ \A i \in 1..Len(clients) :
           clients[i].roomId # NULL =>
               /\ clients[i].roomId \in DOMAIN rooms
               /\ clients[i].id \in Members(clients[i].roomId)

\* C2 witness: the last member of r1 left it with leave-room and the entry of
\* r1 is gone, while another room still has its members.
C2_Witness_LastMemberLeft ==
    /\ IsMessage({"leave-room"})
    /\ ev.client.roomId = "r1"
    /\ "r1" \notin DOMAIN rooms
    /\ DOMAIN rooms # {}

\* C3: after a connection's transport closes, its id is in no room's member
\* set and has no entry in the registry.
C3_ClosedLeavesNoTrace ==
    ev.kind = "close" =>
        /\ ~HasClient(clients, ev.from)
        /\ RoomsOf(ev.from) = {}

\* the chat-message envelope the server builds for the last event
ChatEnvelope ==
    [type |-> "chat-message", userId |-> ev.client.userId,
     message |-> ev.msg.message, encrypted |-> ev.msg.encrypted]

\* C4 as claimed: a chat-message from a connection in a room with N members
\* sends exactly N chat-message envelopes, one to each member of the room,
\* the sender included, all the same, and none outside the room (stated for
\* a sender whose own transport is open).
C4_OneCopyPerMember ==
    (IsMessage({"chat-message"}) /\ Truthy(ev.client.roomId)
         /\ IsOpen(ev.from)) =>
        LET room == Members(ev.client.roomId)
        IN /\ Len(sent) = Cardinality(room)
           /\ \A c \in ClientIds :
                  EnvelopesTo(c) = IF c \in room THEN <<ChatEnvelope>> ELSE <<>>

\* C4 as amended: a chat-message from a connection whose roomId is set sends
\* one chat-message envelope to each member of that room that has a registry
\* entry and an open transport (the sender too, when its transport is open),
\* all the same, and none to any other connection.
C4_OneCopyPerOpenMember ==
    (IsMessage({"chat-message"}) /\ Truthy(ev.client.roomId)) =>
        LET open == {c \in Members(ev.client.roomId) : IsOpen(c)}
        IN /\ Len(sent) = Cardinality(open)
           /\ \A c \in ClientIds :
                  EnvelopesTo(c) = IF c \in open THEN <<ChatEnvelope>> ELSE <<>>

\* C4 witness: bob's chat-message reached both members of the room.
C4_Witness_BothReceive ==
    /\ IsMessage({"chat-message"})
    /\ ev.client.userId = "bob"
    /\ Len(sent) = 2
    /\ sent[1].to # sent[2].to
    /\ ev.from \in {sent[1].to, sent[2].to}

\* C5: a join-room from a connection that has not registered sends one error
\* envelope to that connection, and changes neither the room map nor the
\* registry; no other connection receives anything.
C5_JoinWithoutRegister ==
    [][(ev'.kind = "message" /\ ev'.msg.type = "join-room"
            /\ ev'.client.userId = NULL) =>
        /\ sent' = <<[to |-> ev'.from,
                      env |-> ErrorEnv("Must register before joining room"),
                      delivered |-> IsOpen(ev'.from)]>>
        /\ rooms' = rooms
        /\ clients' = clients]_vars

\* C5 witness: an unregistered connection asked to join while a room had a
\* member, and got the error.
C5_Witness_Refused ==
    /\ IsMessage({"join-room"})
    /\ ev.client.userId = NULL
    /\ Len(sent) = 1
    /\ sent[1].env.type = "error"
    /\ DOMAIN rooms # {}

----------------------------------------------------------------------------
(* Call signaling relay *)

CallTypesOfMessage == {"call-user", "call-response", "end-call"}

RelayTypes == CallTypesOfMessage \cup WebRTCTypes

TargetNotFound == ErrorEnv("Target user not found")

\* the sender of the last message passed the first check of its handler:
\* a userId for the call messages, a roomId for the webrtc-* messages
PassedSenderCheck ==
    IF ev.msg.type \in WebRTCTypes THEN Truthy(ev.client.roomId)
    ELSE Truthy(ev.client.userId)

\* the envelope a relay message is forwarded as
RelayedEnvelope ==
    CASE ev.msg.type = "call-user" ->
             [type |-> "incoming-call", fromUserId |-> ev.client.userId,
              callType |-> ev.msg.callType]
      [] ev.msg.type = "call-response" ->
             [type |-> "call-response", fromUserId |-> ev.client.userId,
              accepted |-> ev.msg.accepted]
      [] ev.msg.type = "end-call" ->
             [type |-> "call-ended", fromUserId |-> ev.client.userId]
      [] OTHER ->
             [type |-> ev.msg.type, fromUserId |-> ev.client.userId,
              data |-> ev.msg.data]

\* the last event sent exactly one envelope, an error, to its own sender
OnlyErrorToSender(error) ==
    /\ Len(sent) = 1
    /\ sent[1].to = ev.from
    /\ sent[1].env = error

\* C6 as claimed: a call-user from any connection whose targetUserId is the
\* userId of no connection sends an error envelope to the sender and
\* nothing to any other connection.
C6_UnknownTargetError ==
    (IsMessage({"call-user"}) /\ ~SomeClientHas(ev.msg.targetUserId)) =>
        OnlyErrorToSender(TargetNotFound)

\* C6 as amended: a call-user from a connection that has a non-empty userId
\* and whose targetUserId is the userId of no connection sends one error
\* envelope to the sender and nothing to any other connection; from a
\* connection without userId the call-user is dropped and nothing is sent.
C6_UnknownTargetErrorWhenRegistered ==
    (IsMessage({"call-user"}) /\ ~SomeClientHas(ev.msg.targetUserId)) =>
        IF Truthy(ev.client.userId) THEN OnlyErrorToSender(TargetNotFound)
        ELSE sent = <<>>

\* C6 witness: alice called bob while another connection was registered but
\* none as bob, and got the error.
C6_Witness_UnknownTarget ==
    /\ IsMessage({"call-user"})
    /\ ev.client.userId = "alice"
    /\ ev.msg.targetUserId = "bob"
    /\ Len(clients) = 2
    /\ sent # <<>>
    /\ sent[1].env.type = "error"

\* C7 as claimed: for call-response, end-call and webrtc-* alike, when no
\* connection has userId equal to targetUserId the sender receives the error
\* "Target user not found" (stated for a registered sender in a room).
C7_AllRelayTypesError ==
    (IsMessage(RelayTypes \ {"call-user"})
         /\ Truthy(ev.client.userId) /\ Truthy(ev.client.roomId)
         /\ ~SomeClientHas(ev.msg.targetUserId)) =>
        \E i \in 1..Len(sent) :
            sent[i].to = ev.from /\ sent[i].env = TargetNotFound

\* C7 as amended: when no connection has userId equal to targetUserId, a
\* webrtc-offer, webrtc-answer or webrtc-ice-candidate from a sender whose
\* roomId is set makes the sender receive the error "Target user not found";
\* a call-response or end-call is dropped and nothing is sent to anyone.
C7_OnlyWebRTCError ==
    (IsMessage(RelayTypes \ {"call-user"})
         /\ ~SomeClientHas(ev.msg.targetUserId)) =>
        IF ev.msg.type \in WebRTCTypes /\ Truthy(ev.client.roomId)
        THEN OnlyErrorToSender(TargetNotFound)
        ELSE sent = <<>>

\* C7 witness: alice, in r1, sent a webrtc-offer to bob, whom nobody is, and
\* got the error.
C7_Witness_WebRTCError ==
    /\ IsMessage({"webrtc-offer"})
    /\ ev.client.roomId = "r1"
    /\ ev.msg.targetUserId = "bob"
    /\ OnlyErrorToSender(TargetNotFound)

\* an envelope of the last event went to a connection holding the target id
SentToTarget ==
    \E i \in 1..Len(sent) :
        /\ HasClient(clients, sent[i].to)
        /\ GetClient(clients, sent[i].to).userId = ev.msg.targetUserId
        /\ sent[i].env = RelayedEnvelope

OneEnvelopeToTarget ==
    /\ Len(sent) = 1
    /\ HasClient(clients, sent[1].to)
    /\ GetClient(clients, sent[1].to).userId = ev.msg.targetUserId
    /\ sent[1].env = RelayedEnvelope

\* C9 as claimed: when the target of a relay message is found, exactly one
\* envelope is sent, to the target only, of the type and with the fields
\* the message calls for and the sender's userId as fromUserId.
C9_ExactlyOneToTarget ==
    (IsMessage(RelayTypes) /\ SomeClientHas(ev.msg.targetUserId)) =>
        OneEnvelopeToTarget

\* C9 as amended: when the sender passes the first check of the handler (a
\* userId for call-user, call-response and end-call, a roomId for webrtc-*)
\* and the target is found, exactly one envelope is sent, to the target
\* only: incoming-call{fromUserId, callType}, call-response{fromUserId,
\* accepted}, call-ended{fromUserId}, or the webrtc-* type with {fromUserId,
\* data}; fromUserId is the sender's userId, the payload is the one
\* received, and the registry and the room map are unchanged.
C9_ExactlyOneToTargetWhenPassed ==
    [][(ev'.kind = "message" /\ ev'.msg.type \in RelayTypes
            /\ SomeClientHas(ev'.msg.targetUserId)
            /\ PassedSenderCheck') =>
        /\ OneEnvelopeToTarget'
        /\ clients' = clients
        /\ rooms' = rooms]_vars

\* C9 witness: bob accepted a call of alice, and the call-response went to
\* alice's connection only.
C9_Witness_CallResponse ==
    /\ IsMessage({"call-response"})
    /\ Len(sent) = 1
    /\ sent[1].to # ev.from
    /\ sent[1].env = [type |-> "call-response", fromUserId |-> "bob",
                      accepted |-> TRUE]
    /\ GetClient(clients, sent[1].to).userId = "alice"

----------------------------------------------------------------------------
(* Broadcast *)

\* The broadcasts the last event calls for: the room, the envelope and the
\* connection left out (0 for none).
Broadcasts ==
    (IF IsMessage({"chat-message"}) /\ Truthy(ev.client.roomId)
     THEN {[room |-> ev.client.roomId, env |-> ChatEnvelope, except |-> 0]}
     ELSE {})
    \cup
    (IF IsMessage({"join-room"}) /\ Truthy(ev.client.userId)
     THEN {[room |-> ev.msg.roomId,
            env |-> [type |-> "user-joined", userId |-> ev.client.userId],
            except |-> ev.from]}
     ELSE {})
    \cup
    (IF (IsMessage({"join-room", "leave-room"}) \/ ev.kind = "close")
          /\ Truthy(ev.client.userId) /\ Truthy(ev.client.roomId)
     THEN {[room |-> ev.client.roomId,
            env |-> [type |-> "user-left", userId |-> ev.client.userId],
            except |-> ev.from]}
     ELSE {})

\* C10: during a room broadcast, a recipient whose transport fails does not
\* keep the envelope from the others: every member of the room the
\* broadcast is for, whose transport is open, receives the envelope.
C10_BroadcastReachesOpenMembers ==
    \A b \in Broadcasts :
        b.room \in DOMAIN rooms =>
            \A c \in Members(b.room) \ {b.except} :
                IsOpen(c) =>
                    \E i \in 1..Len(sent) :
                        /\ sent[i].to = c
                        /\ sent[i].env = b.env
                        /\ sent[i].delivered

\* C10 witness: a chat-message went to a room in which a member whose
\* transport is down comes before a member whose transport is open, and the
\* open one received it.
C10_Witness_PastFailedMember ==
    /\ IsMessage({"chat-message"})
    /\ Truthy(ev.client.roomId)
    /\ LET room == rooms[ev.client.roomId]
       IN \E j, k \in 1..Len(room) :
              /\ j < k
              /\ HasClient(clients, room[j])
              /\ ~IsOpen(room[j])
              /\ IsOpen(room[k])
              /\ EnvelopesTo(room[k]) = <<ChatEnvelope>>

----------------------------------------------------------------------------
(* Chat without a room, registration *)

\* C17: a chat-message from a connection that is in no room sends one error
\* envelope to the sender only; no chat-message goes to any connection and
\* neither the registry nor the room map changes.
C17_ChatWithoutRoom ==
    [][(ev'.kind = "message" /\ ev'.msg.type = "chat-message"
            /\ RoomsOf(ev'.from) = {}) =>
        /\ OnlyErrorToSender(ErrorEnv("Must be in a room to send messages"))'
        /\ clients' = clients
        /\ rooms' = rooms]_vars

\* C17 witness: a registered connection in no room sent a chat-message while
\* another connection was in a room, and only the sender got an envelope,
\* the error.
C17_Witness_ErrorToSender ==
    /\ IsMessage({"chat-message"})
    /\ ev.client.userId = "alice"
    /\ RoomsOf(ev.from) = {}
    /\ DOMAIN rooms # {}
    /\ OnlyErrorToSender(ErrorEnv("Must be in a room to send messages"))

\* C20: register succeeds for any connection of the registry: it sets the
\* userId of that connection only, sends one registered{userId} envelope to
\* the sender only, and leaves every room's member set and every other
\* registry entry as it was, also when another connection holds the userId.
C20_RegisterAlwaysSucceeds ==
    [][(ev'.kind = "message" /\ ev'.msg.type = "register") =>
        /\ clients' = [clients EXCEPT
               ![ClientIdx(clients, ev'.from)].userId = ev'.msg.userId]
        /\ sent' = <<[to |-> ev'.from,
                      env |-> [type |-> "registered",
                               userId |-> ev'.msg.userId],
                      delivered |-> IsOpen(ev'.from)]>>
        /\ rooms' = rooms]_vars

\* C20 witness: a connection registered with the userId another connection
\* holds, while in a room, and got registered.
C20_Witness_SameUserIdTwice ==
    /\ IsMessage({"register"})
    /\ \E i, j \in 1..Len(clients) :
           /\ i # j
           /\ clients[i].id = ev.from
           /\ clients[i].userId = clients[j].userId
           /\ clients[i].roomId = "r1"
    /\ Len(sent) = 1
    /\ sent[1].env = [type |-> "registered", userId |-> ev.msg.userId]

----------------------------------------------------------------------------
(* Joining a room *)

\* the envelopes of one type sent to connection c by the last event
EnvelopesOfType(c, type) == SelectSeq(EnvelopesTo(c), LAMBDA e : e.type = type)

\* the last event is a join-room of a registered connection
SuccessfulJoin == IsMessage({"join-room"}) /\ Truthy(ev.client.userId)

UserJoined == [type |-> "user-joined", userId |-> ev.client.userId]

\* the joiner got one joined-room naming the room, and no user-joined
JoinerGetsJoinedRoom ==
    /\ Len(EnvelopesOfType(ev.from, "joined-room")) = 1
    /\ EnvelopesOfType(ev.from, "joined-room")[1].roomId = ev.msg.roomId
    /\ EnvelopesOfType(ev.from, "user-joined") = <<>>

\* C14 as claimed: on a successful join-room to room r by connection C, C
\* receives exactly one joined-room{roomId: r, users} and no user-joined,
\* every other member of r receives exactly one user-joined carrying C's
\* userId, and no connection outside r receives a user-joined (stated for
\* members that have a registry entry).
C14_EveryMemberNotified ==
    SuccessfulJoin =>
        /\ JoinerGetsJoinedRoom
        /\ \A c \in ClientIds \ {ev.from} :
               EnvelopesOfType(c, "user-joined") =
                   IF c \in Members(ev.msg.roomId) /\ HasClient(clients, c)
                   THEN <<UserJoined>> ELSE <<>>

\* C14 as amended: on a successful join-room to room r by connection C, the
\* server sends C exactly one joined-room{roomId: r, users} and no
\* user-joined; every other member of r that has a registry entry and an
\* open transport receives exactly one user-joined carrying C's userId; no
\* other connection receives a user-joined.
C14_EveryOpenMemberNotified ==
    SuccessfulJoin =>
        /\ JoinerGetsJoinedRoom
        /\ \A c \in ClientIds \ {ev.from} :
               EnvelopesOfType(c, "user-joined") =
                   IF c \in Members(ev.msg.roomId) /\ IsOpen(c)
                   THEN <<UserJoined>> ELSE <<>>

\* C14 witness: bob joined r1, where another connection already was; bob got
\* joined-room and the other member got user-joined{bob}.
C14_Witness_MemberNotified ==
    /\ SuccessfulJoin
    /\ ev.client.userId = "bob"
    /\ ev.msg.roomId = "r1"
    /\ JoinerGetsJoinedRoom
    /\ \E c \in Members("r1") \ {ev.from} :
           EnvelopesTo(c) = <<UserJoined>>

\* The scenario: connection A registered as alice and joined r1, then
\* connection B registered as bob and has just joined r1, both transports
\* open and no other room in use.
AliceThenBobJoinedR1(a, b) ==
    /\ IsMessage({"join-room"})
    /\ ev.from = b
    /\ ev.msg.roomId = "r1"
    /\ ev.client = [userId |-> "bob", roomId |-> NULL]
    /\ DOMAIN rooms = {"r1"}
    /\ rooms["r1"] = <<a, b>>
    /\ IsOpen(a) /\ IsOpen(b)
    /\ Entry(GetClient(clients, a)) = [userId |-> "alice", roomId |-> "r1"]

\* C15 as claimed: in the scenario, A receives user-joined{userId: "bob"}
\* and the users field of B's joined-room payload is the list ["alice"].
C15_UsersListsAliceOnly ==
    \A a, b \in ClientIds :
        AliceThenBobJoinedR1(a, b) =>
            /\ EnvelopesTo(a) = <<[type |-> "user-joined", userId |-> "bob"]>>
            /\ EnvelopesTo(b) = <<[type |-> "joined-room", roomId |-> "r1",
                                   users |-> <<"alice">>]>>

\* C15 as amended: in the scenario, A receives user-joined{userId: "bob"}
\* and the users field of B's joined-room payload is the list
\* ["alice", "bob"]: the members in the order they joined, B included.
C15_UsersListsJoinerToo ==
    \A a, b \in ClientIds :
        AliceThenBobJoinedR1(a, b) =>
            /\ EnvelopesTo(a) = <<[type |-> "user-joined", userId |-> "bob"]>>
            /\ EnvelopesTo(b) = <<[type |-> "joined-room", roomId |-> "r1",
                                   users |-> <<"alice", "bob">>]>>

\* C15 witness: the scenario has just run, with A the first connection and
\* B the second, and two envelopes went out.
C15_Witness_Scenario ==
    /\ AliceThenBobJoinedR1(1, 2)
    /\ Len(sent) = 2

----------------------------------------------------------------------------
(* Leaving a room *)

\* connection c, registered, is a member of room r
RegisteredMember(c, r) ==
    /\ r \in DOMAIN rooms
    /\ c \in Members(r)
    /\ HasClient(clients, c)
    /\ Truthy(GetClient(clients, c).userId)

\* the members room r has (none when the room map has no entry for r)
MembersOrNone(r) == IF r \in DOMAIN rooms THEN Members(r) ELSE {}

UserLeft(c) == [type |-> "user-left", userId |-> GetClient(clients, c).userId]

\* C16 as claimed: whenever a registered connection with userId u stops
\* being a member of room r (by leave-room, by disconnect, or by joining
\* another room), every connection remaining in r receives exactly one
\* user-left{userId: u} and the leaving connection receives none; if r
\* becomes empty it is deleted.
C16_EveryRemainingMemberNotified ==
    [][\A c \in ClientIds, r \in DOMAIN rooms :
          (RegisteredMember(c, r) /\ c \notin MembersOrNone(r)') =>
              /\ \A d \in MembersOrNone(r)' :
                     EnvelopesOfType(d, "user-left")' = <<UserLeft(c)>>
              /\ EnvelopesOfType(c, "user-left")' = <<>>
              /\ r \in DOMAIN rooms' => rooms'[r] # <<>>]_vars

\* C16 as amended: whenever a registered connection with userId u stops
\* being a member of room r (by leave-room, by disconnect, or by joining
\* another room), every connection remaining in r whose transport is open
\* receives exactly one user-left{userId: u}, and no other connection, the
\* leaving one included, receives a user-left; if r becomes empty it is
\* deleted.
C16_EveryOpenRemainingMemberNotified ==
    [][\A c \in ClientIds, r \in DOMAIN rooms :
          (RegisteredMember(c, r) /\ c \notin MembersOrNone(r)') =>
              /\ \A d \in ClientIds :
                     EnvelopesOfType(d, "user-left")' =
                         IF d \in MembersOrNone(r)' /\ IsOpen(d)'
                         THEN <<UserLeft(c)>> ELSE <<>>
              /\ r \in DOMAIN rooms' => rooms'[r] # <<>>]_vars

\* C16 witness: alice, a member of r1, disconnected, and the member that
\* remains in r1 received user-left{alice}.
C16_Witness_DisconnectNotifies ==
    /\ ev.kind = "close"
    /\ ev.client = [userId |-> "alice", roomId |-> "r1"]
    /\ "r1" \in DOMAIN rooms
    /\ Len(sent) = 1
    /\ sent[1].to \in Members("r1")
    /\ sent[1].env = [type |-> "user-left", userId |-> "alice"]

----------------------------------------------------------------------------
(* Frames of any form *)

IsFrame(forms) == ev.kind = "frame" /\ ev.data.json \in forms

InvalidFormat == ErrorEnv("Invalid message format")

ErrorReplyOnly ==
    /\ sent' = <<[to |-> ev'.from, env |-> InvalidFormat,
                  delivered |-> IsOpen(ev'.from)]>>
    /\ clients' = clients
    /\ rooms' = rooms

\* C12 as claimed: a frame that does not parse as a JSON envelope (text that
\* is not JSON, or JSON that is not an object) makes the server send an error
\* envelope to the originating connection only; nothing is sent to any
\* other connection and the registry and room map are unchanged.
C12_NotAnEnvelopeError ==
    [][(ev'.kind = "frame" /\ ev'.data.json # "object") => ErrorReplyOnly]_vars

\* C12 as amended: a frame that is not JSON text, or is the JSON text
\* `null`, makes the server send one error envelope to the originating
\* connection only, with the registry and room map unchanged; a frame that
\* is any other JSON value without a known type (a number, say) is ignored:
\* nothing is sent and nothing changes.
C12_ParseFailureError ==
    [][(ev'.kind = "frame" /\ ev'.data.json # "object") =>
        IF ev'.data.json \in {"garbage", "null"} THEN ErrorReplyOnly
        ELSE sent' = <<>> /\ clients' = clients /\ rooms' = rooms]_vars

\* C12 witness: a connection sent text that is not JSON while another
\* connection was in room r1, and the only envelope sent is the error to
\* the sender.
C12_Witness_GarbageFrame ==
    /\ IsFrame({"garbage"})
    /\ DOMAIN rooms = {"r1"}
    /\ ev.from \notin Members("r1")
    /\ OnlyErrorToSender(InvalidFormat)

DispatchTable ==
    {"register", "join-room", "leave-room", "chat-message", "call-user",
     "call-response", "end-call"} \cup WebRTCTypes

\* C13: an envelope whose type is not in the dispatch table is ignored: no
\* envelope (in particular no error) is sent to any connection, and the
\* registry and room map are unchanged.
C13_UnknownTypeIgnored ==
    [][(ev'.kind = "frame" /\ ev'.data.json = "object"
            /\ ev'.data.value.type \notin DispatchTable) =>
        /\ sent' = <<>>
        /\ clients' = clients
        /\ rooms' = rooms]_vars

\* C13 witness: a registered member of r1 sent an envelope of type ping
\* while another connection was in r1, and nothing was sent.
C13_Witness_PingIgnored ==
    /\ IsFrame({"object"})
    /\ ev.data.value.type = "ping"
    /\ ev.client = [userId |-> "alice", roomId |-> "r1"]
    /\ Cardinality(Members("r1")) = 2
    /\ sent = <<>>

----------------------------------------------------------------------------
(* Order of processing *)

\* in a list of chat envelopes, those of one sending connection are in the
\* order they were sent in
InOrder(log) ==
    \A i, j \in 1..Len(log) :
        (i < j /\ log[i].message[1] = log[j].message[1]) =>
            log[i].message[2] < log[j].message[2]

MustRegister == ErrorEnv("Must register before joining room")

----------------------------------------------------------------------------
(* No call state *)

StatelessRelayTypes == {"call-response", "end-call"} \cup WebRTCTypes

\* C19: the relay keeps no call state: whether a call-response, end-call or
\* webrtc-* message is delivered to its target depends on the registry
\* alone (the check of the sender and the look-up of the target), not on an
\* earlier call-user between the two parties; it is delivered after any
\* history of messages that leads to the same registry.
C19_DeliveryIgnoresCallHistory ==
    IsMessage(StatelessRelayTypes) =>
        (SentToTarget <=>
            (PassedSenderCheck /\ SomeClientHas(ev.msg.targetUserId)))

\* C19 witness: bob's call-response to alice was delivered to alice though
\* no call-user was ever relayed.
C19_Witness_ResponseWithoutCall ==
    /\ IsMessage({"call-response"})
    /\ ev.client.userId = "bob"
    /\ ev.msg.targetUserId = "alice"
    /\ calls = {}
    /\ SentToTarget
    /\ sent[1].to # ev.from

----------------------------------------------------------------------------
(* Leaving twice *)

\* what a further leave-room of connection c would do in the state reached
LeaveAgain(c) ==
    handleMessage([clients |-> clients', rooms |-> rooms', sent |-> <<>>], c,
                  [type |-> "leave-room"])

\* C21: leave-room is idempotent from NoRoom: a leave-room from a connection
\* that is in no room changes no state and sends no envelope to anyone, and
\* a second leave-room right after a leave-room changes nothing and sends
\* nothing, so two in a row have the effect of one.
C21_LeaveIdempotent ==
    [][(ev'.kind = "message" /\ ev'.msg.type = "leave-room") =>
        /\ RoomsOf(ev'.from) = {} =>
               sent' = <<>> /\ clients' = clients /\ rooms' = rooms
        /\ LeaveAgain(ev'.from) =
               [clients |-> clients', rooms |-> rooms', sent |-> <<>>]]_vars

\* C21 witness: a registered connection in no room sent leave-room while
\* another connection was in r1; nothing was sent and r1 kept its member.
C21_Witness_LeaveFromNoRoom ==
    /\ IsMessage({"leave-room"})
    /\ ev.client = [userId |-> "alice", roomId |-> NULL]
    /\ sent = <<>>
    /\ DOMAIN rooms = {"r1"}
    /\ Len(rooms["r1"]) = 1

----------------------------------------------------------------------------
(* Disconnect during a call *)

\* the userIds the closed connection had a relayed call-user with
CallPartners(u) ==
    {v \in UserIdInputs : <<u, v>> \in calls \/ <<v, u>> \in calls}

\* C22: when a connection's transport drops the server sends no call-ended
\* or other call envelope: every envelope a disconnect produces is a
\* user-left naming the closed connection's userId, sent to a connection
\* that remains a member of the room the closed connection was in.
C22_CloseSendsOnlyUserLeft ==
    ev.kind = "close" =>
        \A i \in 1..Len(sent) :
            /\ sent[i].env = [type |-> "user-left", userId |-> ev.client.userId]
            /\ sent[i].to # ev.from
            /\ sent[i].to \in MembersOrNone(ev.client.roomId)

\* C22 witness: bob, whose call-user to alice had been relayed, disconnected
\* while alice was registered and in his room: one user-left and nothing
\* else.
C22_Witness_CloseAfterCall ==
    /\ ev.kind = "close"
    /\ ev.client = [userId |-> "bob", roomId |-> "r1"]
    /\ "alice" \in CallPartners("bob")
    /\ SomeClientHas("alice")
    /\ Len(sent) = 1
    /\ sent[1].env.type = "user-left"

----------------------------------------------------------------------------
(* Several holders of one userId *)

\* the connections in the registry that hold this userId
Holders(userId) ==
    {c \in ClientIds : HasClient(clients, c)
                          /\ GetClient(clients, c).userId = userId}

\* the earliest-opened of a set of connections: ids are given out in the
\* order of opening
EarliestOpened(cs) == CHOOSE c \in cs : \A d \in cs : c <= d

----------------------------------------------------------------------------
(* Registry and room map *)

\* C26: the registry and the room map agree: a connection is in the member
\* set of room r exactly when its registry entry has roomId = r, and every
\* member of every room has a registry entry.
C26_RegistryAgreesWithRooms ==
    /\ \A c \in ClientIds, r \in DOMAIN rooms :
           c \in Members(r) <=>
               (HasClient(clients, c) /\ GetClient(clients, c).roomId = r)
    /\ \A i \in 1..Len(clients) :
           clients[i].roomId # NULL => clients[i].roomId \in DOMAIN rooms

----------------------------------------------------------------------------
(* Identity of room members *)

\* the envelope types that carry the userId of the connection they are about
NamesSender == {"chat-message", "user-joined", "user-left"}

\* C27: every connection that is a member of a room has a non-null,
\* non-empty userId, and every chat-message, user-joined and user-left
\* envelope carries such a userId, also after a member registers again.
C27_MembersKeepUserId ==
    /\ \A r \in DOMAIN rooms : \A c \in Members(r) :
           HasClient(clients, c) => Truthy(GetClient(clients, c).userId)
    /\ \A i \in 1..Len(sent) :
           sent[i].env.type \in NamesSender => Truthy(sent[i].env.userId)

----------------------------------------------------------------------------
(* Round trip of the encryption module *)

\* the last step decrypted with the key that encrypted, or with that key
\* after export and import
DecryptedWithSameKey ==
    crypto.pc = "decrypted" /\ crypto.with \in {"original", "imported"}

\* C23 as claimed: for every plaintext string and symmetric key,
\* decryptMessage(encryptMessage(plaintext, key), key) equals plaintext, and
\* so does decryption with the key after exportSymmetricKey and
\* importSymmetricKey.
C23_RoundTrip ==
    DecryptedWithSameKey => crypto.decrypted = Returned(crypto.message)

\* a string in which every surrogate is half of a pair
RECURSIVE WellFormed(_)
WellFormed(s) ==
    IF s = <<>> THEN TRUE
    ELSE IF IsHighSurrogate(s[1])
    THEN Len(s) >= 2 /\ IsLowSurrogate(s[2]) /\ WellFormed(SubSeq(s, 3, Len(s)))
    ELSE ~IsLowSurrogate(s[1]) /\ WellFormed(Tail(s))

StartsWithBOM(s) == s # <<>> /\ s[1] = 65279

\* C23: the round trip gives the plaintext back for every well-formed
\* string that does not start with U+FEFF, with the original key and with
\* the exported and imported key; it never throws with those keys, and it
\* throws with another key.
C23_RoundTripOfWellFormedText ==
    /\ DecryptedWithSameKey =>
           /\ ~crypto.decrypted.thrown
           /\ (WellFormed(crypto.message) /\ ~StartsWithBOM(crypto.message))
                  => crypto.decrypted = Returned(crypto.message)
    /\ (crypto.pc = "decrypted" /\ crypto.with = "other")
           => crypto.decrypted.thrown

\* C23 witness: U+1F680 (a surrogate pair, four bytes of UTF-8), encrypted
\* with one key, came back from the exported and imported key.
C23_Witness_EmojiWithImportedKey ==
    /\ crypto.pc = "decrypted"
    /\ crypto.with = "imported"
    /\ crypto.message = <<55357, 56960>>
    /\ crypto.decrypted = Returned(<<55357, 56960>>)

----------------------------------------------------------------------------
(* Confirmation of dangerous commands *)

\* the user was asked and did not answer y or yes (in any case)
Declined == shell.asked /\ shell.answer \in {"n", ""}

\* C24: with YOLO mode off a command classified as dangerous is executed
\* only after the user was asked and confirmed; when the user declines the
\* command is not executed and the result is the cancelled one (success
\* false, cancelled true, exitCode 130, stderr 'Command cancelled by
\* user'); with YOLO mode on no confirmation is asked.
C24_DangerousNeedsConfirmation ==
    /\ (/\ shell.pc \in {"executing", "returned"}
        /\ ~shell.yoloMode
        /\ isDangerousCommand(shell.command, shell.dangerousList))
           => /\ shell.asked
              /\ shell.answer \in {"y", "YES"} <=> shell.pc = "executing"
                                                     \/ shell.executed
    /\ (shell.pc = "returned" /\ Declined)
           => /\ ~shell.executed
              /\ shell.result.success = FALSE
              /\ shell.result.cancelled = TRUE
              /\ shell.result.exitCode = 130
              /\ shell.result.stderr = "Command cancelled by user"
    /\ (shell.pc # "unused" /\ shell.yoloMode) => ~shell.asked

\* C24 witness: "rm file" with YOLO mode off, the user answered "n": the
\* cancelled result and no execution.
C24_Witness_DeclinedRm ==
    /\ shell.pc = "returned"
    /\ shell.command = <<"rm", "file">>
    /\ ~shell.yoloMode
    /\ shell.answer = "n"
    /\ ~shell.executed
    /\ shell.result = Cancelled

----------------------------------------------------------------------------
(* Presence *)

\* the userIds of the connections other than c that are in room r
OtherUserIds(c, r) ==
    {GetClient(clients, d).userId :
        d \in {x \in MembersOrNone(r) \ {c} : HasClient(clients, x)}}

\* C28: presence is consistent: for a client that is in a room, the users
\* set it keeps from the joined-room, user-joined and user-left envelopes
\* equals, once the envelopes sent are handled, the set of userIds of the
\* other connections in that room, after any joins, leaves, disconnects and
\* re-registrations, also with two connections claiming one userId.
C28_PresenceConsistent ==
    \A c \in ClientIds :
        (HasClient(clients, c) /\ c \in MembersOrNone(GetClient(clients, c).roomId))
            => browser[c].users = OtherUserIds(c, GetClient(clients, c).roomId)

----------------------------------------------------------------------------
(* Encrypted chat between two clients *)

\* C29: when the clients in a room logged in with encryption enabled, a
\* chat message sent encrypted by one is shown by the other with the
\* original plaintext, never as '[Unable to decrypt message]'.
C29_EncryptedChatIsReadable ==
    \A d \in ClientIds :
        browser[d].encryptionEnabled =>
            \A i \in 1..Len(browser[d].shown) :
                browser[d].shown[i].encrypted =>
                    /\ ~browser[d].shown[i].unable
                    /\ browser[d].shown[i].text \in ChatTextInputs

----------------------------------------------------------------------------
(* Media and signaling of the callee *)

\* C30: a callee's client has no media and sends no webrtc-answer for a
\* call its user has not accepted, and no client handles a webrtc-*
\* envelope while its currentCall is null: handleWebRTCSignaling runs only
\* with a current, accepted call.
C30_SignalingOnlyInAcceptedCall ==
    \A c \in ClientIds :
        /\ (/\ browser[c].currentCall # NoCall
            /\ ~browser[c].currentCall.isInitiator
            /\ browser[c].localStream)
               => browser[c].accepted
        /\ browser[c].last.handler = "handleWebRTCSignaling"
               => /\ browser[c].last.hadCall
                  /\ browser[c].last.accepted

====
